---- MODULE Spec2Model ----
(***************************************************************************)
(* A model of the paired microbenchmark harness: the streaming Summary of  *)
(* both crates (src/src/lib.rs and src/tango-bench/src/lib.rs), the paired *)
(* measurement loop measure_function_pair, the compare loop                *)
(* commands::pairwise_compare, calculate_run_result with its outlier       *)
(* filter iqr_variance_thresholds, the Benchmark registry with run_by_name *)
(* and run_calibration, a single measure call statement by statement, and  *)
(* max_variance_thresholds with binomial_interval_approximation.           *)
(***************************************************************************)
EXTENDS Integers, Sequences, FiniteSets, TLC

VARIABLES
    cmd,          \* which part of the program runs: "summary", "pair", "compare", "result"
    \* ---- Summary / RunningSummary
    impl,         \* "bench": src/tango-bench/src/lib.rs, "root": src/src/lib.rs
    xs,           \* the values fed to Summary::running / Summary::from
    running,      \* Option<RunningSummary>: <<>> or <<state>>
    emitted,      \* the snapshots the running iterator has yielded so far
    from_result,  \* Option<Summary>: the value of Summary::from(xs) once computed
    spc,          \* position in Summary::from: "start", "iter", "done"
    \* ---- measure_function_pair (src/src/lib.rs) and pairwise_compare (cli.rs)
    opts,         \* RunOpts: max_iterations, max_duration, haystack_frequency, needle_frequency
    pc,           \* position in the running function
    now,          \* what Instant::now() returns, in units of 10 ms
    deadline,     \* the deadline of the loop being run
    generator,    \* how many haystacks and needles the generator has handed out
    haystack,     \* the current haystack (the number of the draw that made it)
    needle,       \* the current needle (the number of the draw that made it)
    pilot_iterations,   \* `iterations` of estimate_iterations_per_ms
    iterations_choices, \* the table of sample sizes
    i,            \* the sample index of the main loop
    iterations,   \* the sample size of the current sample
    first_sample, \* ticks of the first measure call of the current sample
    base_time,    \* measure_function_pair: per-iteration baseline times
    candidate_time,     \* measure_function_pair: per-iteration candidate times
    baseline_first,     \* pairwise_compare: the order flag
    base_samples,       \* pairwise_compare: per-iteration baseline times
    candidate_samples,  \* pairwise_compare: per-iteration candidate times
    result,       \* Option of what measure_function_pair returns
    estimated,    \* pairwise_compare: Option of what estimate_iterations returned
    turns_per_step,     \* how many turns of the pilot loop one step of the model follows
    exit,         \* why the main loop ended: "none", "deadline", "cap"
    targets,      \* pairwise_compare: "simple" (zero-argument) or "generator" targets
    candidate_generator, \* pairwise_compare: the generator bound to the candidate
    \* ---- history (not program state): what the loop did, for the properties
    history,      \* one record per started sample
    deadline_checks,    \* the sample indices at which the main loop read the clock
    \* ---- calculate_run_result and iqr_variance_thresholds
    diff,         \* the vector of differences calculate_run_result is given
    filter_outliers,    \* its filter_outliers argument
    candidate_mean,     \* the mean of the candidate summary it is given
    thresholds,   \* Option of the (min, max) iqr_variance_thresholds returned
    measurements, \* the differences the filter kept
    run_result,   \* Option of the RunResult: diff summary, significant, outliers
    rpc,          \* position in calculate_run_result: "idle", "call", "returned", "panicked"
    \* ---- Benchmark: the registry of pairs and its reporters
    funcs,        \* BTreeMap<String, FnPair>: key |-> the pair stored under it
    added,        \* history: the pairs add_pair was called with, in order
    bpc,          \* position in the Benchmark method being run
    reporters,    \* Vec<Box<dyn Reporter>>: how many reporters were added
    name_filter,  \* run_by_name: opts.name_filter.unwrap_or("")
    generator_name,     \* run_by_name: payloads.name()
    cursor,       \* the position of the `for` loop over self.funcs
    start_reported,     \* run_by_name: the flag of the same name
    events,       \* history: the calls the reporters received, in order
    verdicts,     \* which tries of calibrate come out significant
    calibration,  \* history: the calibrate calls and what was printed for each
    \* ---- one measure call of a MeasureTarget or BenchmarkFn (tango-bench lib.rs)
    target,       \* which measure runs: the function's kind and whether a generator is bound
    mpc,          \* position in the measure call
    requested,    \* the `iterations` argument, or needles.len() when called with needles
    needles,      \* Option of the number of needles in the batch handed to the function
    results,      \* the results buffer: "none", <<n>> with n values pushed, "dropped"
    trace,        \* history: what the call did, in order
    \* ---- max_variance_thresholds (src/src/lib.rs)
    mv_input,     \* its `input` argument
    mv_outliers_cnt,    \* its `outliers_cnt` argument
    mv_result,    \* Option of the (min, max) it returned
    mv_decision,  \* Option of what the accepted split was decided on
    mv_pc         \* "idle", "call", "returned", "panicked"

sumVars == <<impl, xs, running, emitted, from_result, spc>>

loopVars == <<opts, pc, now, deadline, generator, haystack, needle,
              pilot_iterations, iterations_choices, i, iterations, first_sample,
              base_time, candidate_time, baseline_first, base_samples,
              candidate_samples, result, estimated, turns_per_step, exit,
              history, deadline_checks>>

resVars == <<diff, filter_outliers, candidate_mean, thresholds, measurements,
             run_result, rpc>>

targetVars == <<targets, candidate_generator>>

benchVars == <<funcs, added, bpc, reporters, name_filter, generator_name, cursor,
               start_reported, events, verdicts, calibration>>

measVars == <<target, mpc, requested, needles, results, trace>>

mvVars == <<mv_input, mv_outliers_cnt, mv_result, mv_decision, mv_pc>>

extVars == <<benchVars, measVars, mvVars>>

vars == <<cmd, sumVars, loopVars, targetVars, resVars, extVars>>

(***************************************************************************)
(* Bounds of the model.                                                    *)
(***************************************************************************)
MaxLen == 4           \* longest input sequence fed to Summary
MaxValue == 3         \* input values range over -1 .. MaxValue
MaxSamples == 21      \* largest max_iterations (the cap on paired samples) tried
MaxPilot == 100       \* most steps of the 10 ms pilot loop that are followed
MaxCompareSamples == 6  \* most samples pairwise_compare collects
MaxOverrun == 1       \* how far beyond a deadline the clock is followed
MaxDiffLen == 7       \* longest vector of differences given to calculate_run_result
MaxPairs == 2         \* add_pair calls made on one Benchmark
MaxReporters == 2     \* add_reporter calls made on one Benchmark
MaxIterations == 3    \* largest `iterations` of a single measure call followed step by step
MaxInputLen == 3      \* longest input of max_variance_thresholds taken value by value
LargeValues == 20     \* how many large values the long inputs of max_variance_thresholds hold

(***************************************************************************)
(* Constants of the program.  The clock unit is 10 ms.                     *)
(***************************************************************************)
factor == 10            \* estimate_iterations_per_ms: the pilot lasts factor * 1 ms
rounding_factor == 10   \* estimate_iterations_per_ms: rounds down to a multiple of it
PilotDuration == 1      \* Duration::from_millis(1) * factor, in clock units
MaxChoices == 100       \* iterations.min(100): the longest table of sample sizes
CheckEvery == 10        \* the deadline is looked at when i % 10 == 0
CompareDuration == 10   \* Duration::from_millis(100), in clock units
NS_TO_MS == 1000000     \* nanoseconds per millisecond
MaxCompareIterations == 50  \* estimate.max(1).min(50)
FACTOR == 5             \* iqr_variance_thresholds: outliers are 5 IQR off a quartile
EstimateNeedles == 10   \* GenAndFunc::estimate_iterations: let iterations = 10
TRIES == 10             \* run_calibration: const TRIES: usize = 10
BudgetNumerator == 100  \* max_variance_thresholds: target = 100. / (..)
MinExpected == 10       \* binomial_interval_approximation: nf * p < 10.

(***************************************************************************)
(* Option<T>: None is the empty sequence, Some(v) the one-element one.     *)
(***************************************************************************)
None == <<>>
Some(v) == <<v>>
IsSome(o) == o # <<>>
Unwrap(o) == o[1]

(***************************************************************************)
(* f64 arithmetic, modelled exactly: a value is a normalised fraction      *)
(* num/den with den > 0.  (Rounding of f64 is outside the model.)          *)
(***************************************************************************)
Abs(x) == IF x < 0 THEN -x ELSE x

RECURSIVE Gcd(_, _)
Gcd(a, b) == IF b = 0 THEN a ELSE Gcd(b, a % b)

Rat(p, q) ==
    LET sgn == IF q < 0 THEN -1 ELSE 1
        g == Gcd(Abs(p), Abs(q))
    IN  [num |-> (sgn * p) \div g, den |-> (sgn * q) \div g]

to_f64(v) == [num |-> v, den |-> 1]
FAdd(a, b) == Rat(a.num * b.den + b.num * a.den, a.den * b.den)
FSub(a, b) == Rat(a.num * b.den - b.num * a.den, a.den * b.den)
FMul(a, b) == Rat(a.num * b.num, a.den * b.den)
FDiv(a, b) == Rat(a.num * b.den, a.den * b.num)
FZero == to_f64(0)

(***************************************************************************)
(* Summary and RunningSummary of src/tango-bench/src/lib.rs.               *)
(***************************************************************************)
\* Summary::running: the iterator starts with n = 0 and T::default() bounds.
Summary_running(iter) ==
    [iter |-> iter, n |-> 0, min |-> 0, max |-> 0, mean |-> FZero, s |-> FZero]

\* The Welford step of RunningSummary::next with the sum of squared
\* deviations updated as (x - mean_p) * (x - mean_p): a plausible slip.
Welford_s_stale(s, fvalue, mean_p, mean) ==
    FAdd(s, FMul(FSub(fvalue, mean_p), FSub(fvalue, mean_p)))

\* self.s += (fvalue - mean_p) * (fvalue - self.mean)
Welford_s(s, fvalue, mean_p, mean) ==
    FAdd(s, FMul(FSub(fvalue, mean_p), FSub(fvalue, mean)))

\* self.mean += (fvalue - self.mean) / self.n as f64
Welford_mean(mean, fvalue, n) ==
    FAdd(mean, FDiv(FSub(fvalue, mean), to_f64(n)))

\* RunningSummary::next on a non-exhausted iterator: the state after the call.
RunningSummary_step(st) ==
    LET value == Head(st.iter)
        fvalue == to_f64(value)
        min0 == IF st.n = 0 THEN value ELSE st.min
        max0 == IF st.n = 0 THEN value ELSE st.max
        min1 == IF value < min0 THEN value ELSE min0
        max1 == IF value > max0 THEN value ELSE max0
        n1 == st.n + 1
        mean_p == st.mean
        mean1 == Welford_mean(st.mean, fvalue, n1)
    IN  [iter |-> Tail(st.iter), n |-> n1, min |-> min1, max |-> max1,
         mean |-> mean1, s |-> Welford_s(st.s, fvalue, mean_p, mean1)]

\* The Summary that RunningSummary::next yields from the state it reached.
RunningSummary_item(st) ==
    [n |-> st.n, min |-> st.min, max |-> st.max, mean |-> st.mean,
     variance |-> IF st.n > 1 THEN FDiv(st.s, to_f64(st.n - 1)) ELSE FZero]

(***************************************************************************)
(* Summary and RunningSummary of src/src/lib.rs.                           *)
(***************************************************************************)
\* Summary::running: takes the head off the input (None when there is none)
\* and starts the iterator at n = 1 without yielding a snapshot for it.
Root_Summary_running(iter) ==
    IF iter = <<>> THEN None
    ELSE Some([iter |-> Tail(iter), n |-> 1, min |-> Head(iter),
               max |-> Head(iter), mean |-> to_f64(Head(iter)), s |-> FZero])

Root_RunningSummary_step(st) ==
    LET value == Head(st.iter)
        fvalue == to_f64(value)
        min1 == IF value < st.min THEN value ELSE st.min
        max1 == IF value > st.max THEN value ELSE st.max
        n1 == st.n + 1
        mean_p == st.mean
        mean1 == Welford_mean(st.mean, fvalue, n1)
    IN  [iter |-> Tail(st.iter), n |-> n1, min |-> min1, max |-> max1,
         mean |-> mean1, s |-> Welford_s(st.s, fvalue, mean_p, mean1)]

Root_RunningSummary_item(st) ==
    [n |-> st.n, min |-> st.min, max |-> st.max, mean |-> st.mean,
     variance |-> FDiv(st.s, to_f64(st.n - 1))]

(***************************************************************************)
(* Summary::from as a function: running(values).last().                    *)
(***************************************************************************)
RECURSIVE Iterator_last(_, _, _)
Iterator_last(st, which, last) ==
    IF st.iter = <<>> THEN last
    ELSE LET st1 == IF which = "bench" THEN RunningSummary_step(st)
                    ELSE Root_RunningSummary_step(st)
             item == IF which = "bench" THEN RunningSummary_item(st1)
                     ELSE Root_RunningSummary_item(st1)
         IN  Iterator_last(st1, which, Some(item))

Summary_from(values) == Iterator_last(Summary_running(values), "bench", None)

Root_Summary_from(values) ==
    LET r == Root_Summary_running(values)
    IN  IF r = None THEN None ELSE Iterator_last(Unwrap(r), "root", None)

(***************************************************************************)
(* Summary::from, step by step: one action per call the code makes.        *)
(***************************************************************************)
RECURSIVE SeqsUpTo(_, _)
SeqsUpTo(S, n) ==
    IF n = 0 THEN {<<>>}
    ELSE LET shorter == SeqsUpTo(S, n - 1)
         IN  shorter \cup {Append(q, v) : q \in {t \in shorter : Len(t) = n - 1}, v \in S}

Values == -1 .. MaxValue

\* The loops' variables before either loop has run.
\* pairwise_compare's targets when it does not run.
TargetsIdle ==
    /\ targets = "simple"
    /\ candidate_generator = [haystacks |-> 0, needles |-> 0]

\* No measure call under way.
MeasureIdle ==
    /\ target = [func |-> "SimpleFunc", generator |-> FALSE]
    /\ mpc = "idle" /\ requested = 0 /\ needles = <<>>
    /\ results = "none" /\ trace = <<>>

\* max_variance_thresholds not called.
ThresholdsIdle ==
    /\ mv_input = <<>> /\ mv_outliers_cnt = 0 /\ mv_result = None
    /\ mv_decision = None /\ mv_pc = "idle"

\* A Benchmark nothing has been registered with.
BenchmarkIdle ==
    /\ funcs = <<>> /\ added = <<>> /\ bpc = "idle"
    /\ reporters = 0 /\ name_filter = <<>> /\ generator_name = <<>>
    /\ cursor = 0 /\ start_reported = FALSE /\ events = <<>>
    /\ verdicts = "never" /\ calibration = <<>>

\* Neither a Benchmark nor a measure call.
ExtIdle == BenchmarkIdle /\ MeasureIdle /\ ThresholdsIdle

LoopIdle ==
    /\ opts = [max_iterations |-> 0, max_duration |-> 0,
               haystack_frequency |-> 1, needle_frequency |-> 1]
    /\ pc = "idle"
    /\ now = 0 /\ deadline = 0
    /\ generator = [haystacks |-> 0, needles |-> 0]
    /\ haystack = 0 /\ needle = 0
    /\ pilot_iterations = 0
    /\ iterations_choices = <<>>
    /\ i = 0 /\ iterations = 0 /\ first_sample = 0
    /\ base_time = <<>> /\ candidate_time = <<>>
    /\ baseline_first = FALSE
    /\ base_samples = <<>> /\ candidate_samples = <<>>
    /\ result = None
    /\ estimated = None
    /\ turns_per_step = 1
    /\ exit = "none"
    /\ history = <<>>
    /\ deadline_checks = {}
    /\ TargetsIdle

\* calculate_run_result before it is called.
ResultIdle ==
    /\ diff = <<>> /\ filter_outliers = FALSE /\ candidate_mean = FZero
    /\ thresholds = None /\ measurements = <<>> /\ run_result = None
    /\ rpc = "idle"

\* Summary::from when nothing has been fed to it.
SummaryIdle ==
    /\ impl = "root" /\ xs = <<>> /\ running = None /\ emitted = <<>>
    /\ from_result = None /\ spc = "idle"

InitSummary ==
    /\ cmd = "summary"
    /\ impl \in {"bench", "root"}
    /\ xs \in SeqsUpTo(Values, MaxLen)
    /\ running = None
    /\ emitted = <<>>
    /\ from_result = None
    /\ spc = "start"
    /\ LoopIdle
    /\ ResultIdle
    /\ ExtIdle

\* Summary::from calls Summary::running on the values.
CallRunning ==
    /\ cmd = "summary" /\ spc = "start"
    /\ running' = IF impl = "bench" THEN Some(Summary_running(xs))
                  ELSE Root_Summary_running(xs)
    \* src/src/lib.rs: `Self::running(..)?` returns None from `from` at once
    /\ spc' = IF running' = None THEN "done" ELSE "iter"
    /\ UNCHANGED <<cmd, impl, xs, emitted, from_result, loopVars, targetVars, resVars, extVars>>

\* Iterator::last pulls one more item out of the running iterator.
CallNext ==
    /\ cmd = "summary" /\ spc = "iter"
    /\ Unwrap(running).iter # <<>>
    /\ LET st1 == IF impl = "bench" THEN RunningSummary_step(Unwrap(running))
                  ELSE Root_RunningSummary_step(Unwrap(running))
           item == IF impl = "bench" THEN RunningSummary_item(st1)
                   ELSE Root_RunningSummary_item(st1)
       IN  /\ running' = Some(st1)
           /\ emitted' = Append(emitted, item)
    /\ UNCHANGED <<cmd, impl, xs, from_result, spc, loopVars, targetVars, resVars, extVars>>

\* The iterator is exhausted: last() returns the last item it saw, if any.
ReturnLast ==
    /\ cmd = "summary" /\ spc = "iter"
    /\ Unwrap(running).iter = <<>>
    /\ from_result' = IF emitted = <<>> THEN None ELSE Some(emitted[Len(emitted)])
    /\ spc' = "done"
    /\ UNCHANGED <<cmd, impl, xs, running, emitted, loopVars, targetVars, resVars, extVars>>

NextSummary == CallRunning \/ CallNext \/ ReturnLast

SpecSummary == InitSummary /\ [][NextSummary]_vars

(***************************************************************************)
(* The environment of the loops: generator, measured functions, clock.     *)
(***************************************************************************)
Min(a, b) == IF a < b THEN a ELSE b
Max(a, b) == IF a > b THEN a ELSE b

\* Generator::next_haystack / next_needle: every draw is a new value, named
\* by its number.
next_haystack(g) == [g EXCEPT !.haystacks = @ + 1]
next_needle(g) == [g EXCEPT !.needles = @ + 1]

\* Ticks one call of a measured function takes on a haystack and a needle.
FuncTicks(f, h, n) ==
    IF f = "base" THEN 3 + (h % 2) + 2 * (n % 2) ELSE 4 + 3 * (h % 2)

\* BenchmarkFn::measure: the timer runs over `iters` calls of the function
\* on the haystack and the needle; starting and stopping it costs one tick.
measure(f, h, n, iters) == iters * FuncTicks(f, h, n) + 1

\* A clock that stands still.
Elapsed_frozen == {0}

\* Instant::now() is read in units of 10 ms, far longer than a call: during
\* any call the clock may or may not pass on to the next unit.  The clock is
\* followed up to MaxOverrun units beyond the deadline in force.
Elapsed == {e \in 0..1 : now + e <= deadline + MaxOverrun}

(***************************************************************************)
(* measure_function_pair and estimate_iterations_per_ms (src/src/lib.rs).  *)
(***************************************************************************)
\* 1.max(iterations / factor / rounding_factor * rounding_factor)
estimate_result(count) ==
    Max(1, ((count \div factor) \div rounding_factor) * rounding_factor)

\* The table of sizes without the cap of 100.
choices_uncapped(est) == [k \in 1..est |-> k]

\* (1..=iterations.min(100)).collect()
choices(est) == [k \in 1..Min(est, MaxChoices) |-> k]

\* The sample size taken with the rotation advancing on every sample.
IterationsAt_every_sample(table, idx) == table[(idx % Len(table)) + 1]

\* iterations_choices[(i / 2) % iterations_choices.len()]
IterationsAt(table, idx) == table[((idx \div 2) % Len(table)) + 1]

\* The deadline looked at on every sample.
DeadlineGate_every_sample(idx) == TRUE

\* The deadline looked at every 20 samples.
DeadlineGate_every_20(idx) == idx % (2 * CheckEvery) = 0

\* i % 10 == 0: whether the deadline is looked at before sample i
DeadlineGate(idx) == idx % CheckEvery = 0

\* The candidate measured first at even indices.
BaseFirst_odd(idx) == idx % 2 = 1

\* i % 2 == 0: whether the baseline is measured before the candidate
BaseFirst(idx) == idx % 2 = 0

\* The pushed time without the division.
PerIteration_total(sample, iters) == sample

\* base_sample as i64 / iterations as i64
PerIteration(sample, iters) == sample \div iters

\* The difference taken the other way round.
Diff_swapped(b, c) == [k \in 1..Min(Len(b), Len(c)) |-> b[k] - c[k]]

\* base_time.into_iter().zip(candidate_time).map(|(b, c)| c - b).collect()
Diff(b, c) == [k \in 1..Min(Len(b), Len(c)) |-> c[k] - b[k]]

\* A new value drawn before every sample, whatever the frequency.
Renew_every_sample(idx, frequency) == TRUE

\* i % opts.haystack_frequency == 0, i % opts.needle_frequency == 0: whether
\* sample i starts by drawing a new value
Renew(idx, frequency) == idx % frequency = 0

\* The second call given a needle drawn after the first call.
SecondCallInputs_redrawn(g, h, n) ==
    [generator |-> next_needle(g), haystack |-> h, needle |-> next_needle(g).needles]

\* What the second measure call of a sample is given: the same locals.
SecondCallInputs(g, h, n) == [generator |-> g, haystack |-> h, needle |-> n]

\* One measure call as the history records it.
Call(f, inputs, iters, ticks) ==
    [f |-> f, haystack |-> inputs.haystack, needle |-> inputs.needle,
     generator |-> inputs.generator, iterations |-> iters, ticks |-> ticks]

\* The history with a call added to its last sample.
WithCall(h, c) == [h EXCEPT ![Len(h)].calls = Append(@, c)]

\* How many turns of the pilot loop pass between two steps of the model: the
\* turns in between change nothing but the counter.  A pair of functions
\* taking 10 us a turn is followed turn by turn, one taking 10 ns by the
\* thousand.
TurnsPerStep == {1, 1000}

SampleCaps == {0, 1, 2, 12, MaxSamples}
Durations == {0, 1, 2}
Frequencies == {1, 2}

InitPair ==
    /\ cmd = "pair"
    /\ SummaryIdle
    /\ ResultIdle
    /\ ExtIdle
    /\ TargetsIdle
    /\ estimated = None
    /\ turns_per_step \in TurnsPerStep
    /\ opts \in [max_iterations : SampleCaps, max_duration : Durations,
                 haystack_frequency : Frequencies, needle_frequency : Frequencies]
    /\ pc = "estimate"
    /\ now = 0 /\ deadline = 0
    /\ generator = [haystacks |-> 0, needles |-> 0]
    /\ haystack = 0 /\ needle = 0
    /\ pilot_iterations = 0
    /\ iterations_choices = <<>>
    /\ i = 0 /\ iterations = 0 /\ first_sample = 0
    /\ base_time = <<>> /\ candidate_time = <<>>
    /\ baseline_first = FALSE
    /\ base_samples = <<>> /\ candidate_samples = <<>>
    /\ result = None
    /\ exit = "none"
    /\ history = <<>>
    /\ deadline_checks = {}

\* estimate_iterations_per_ms up to its loop: one haystack, one needle, the
\* pilot's deadline.
EstimateStart ==
    /\ cmd = "pair" /\ pc = "estimate"
    /\ generator' = next_needle(next_haystack(generator))
    /\ haystack' = generator'.haystacks
    /\ needle' = generator'.needles
    /\ deadline' = now + PilotDuration
    /\ pilot_iterations' = 0
    /\ pc' = "pilot"
    /\ UNCHANGED <<cmd, sumVars, resVars, extVars, targetVars, turns_per_step, estimated, opts, now, iterations_choices, i, iterations,
                   first_sample, base_time, candidate_time, baseline_first,
                   base_samples, candidate_samples, result, exit, history,
                   deadline_checks>>

\* The pilot loop: candidate.measure(.., 1), base.measure(.., 1), one more
\* iteration counted, turns_per_step times over.  The last step the model
\* follows ends the pilot.
PilotIteration ==
    /\ cmd = "pair" /\ pc = "pilot"
    /\ now < deadline
    /\ pilot_iterations < MaxPilot * turns_per_step
    /\ \E e \in Elapsed :
        /\ (pilot_iterations + turns_per_step < MaxPilot * turns_per_step
                \/ now + e >= deadline)
        /\ now' = now + e
    /\ pilot_iterations' = pilot_iterations + turns_per_step
    /\ UNCHANGED <<cmd, sumVars, resVars, extVars, targetVars, turns_per_step, estimated, opts, pc, deadline, generator, haystack, needle,
                   iterations_choices, i, iterations, first_sample, base_time,
                   candidate_time, baseline_first, base_samples,
                   candidate_samples, result, exit, history, deadline_checks>>

\* The pilot's deadline has passed: estimate_iterations_per_ms returns, and
\* measure_function_pair sets its deadline, draws a haystack and a needle
\* (which may take time) and builds the table of sample sizes.
Setup ==
    /\ cmd = "pair" /\ pc = "pilot"
    /\ now >= deadline
    /\ deadline' = now + opts.max_duration
    /\ generator' = next_needle(next_haystack(generator))
    /\ haystack' = generator'.haystacks
    /\ needle' = generator'.needles
    /\ \E e \in 0..1 : now' = now + e
    /\ iterations_choices' = choices(estimate_result(pilot_iterations))
    /\ pilot_iterations' = 0
    /\ i' = 0
    /\ pc' = "loop"
    /\ UNCHANGED <<cmd, sumVars, resVars, extVars, targetVars, turns_per_step, estimated, opts, iterations, first_sample, base_time,
                   candidate_time, baseline_first, base_samples,
                   candidate_samples, result, exit, history, deadline_checks>>

\* for i in 0..opts.max_iterations: the range is exhausted.
LoopExit ==
    /\ cmd = "pair" /\ pc = "loop"
    /\ i >= opts.max_iterations
    /\ exit' = "cap"
    /\ pc' = "finish"
    /\ UNCHANGED <<cmd, sumVars, resVars, extVars, targetVars, turns_per_step, estimated, opts, now, deadline, generator, haystack, needle,
                   pilot_iterations, iterations_choices, i, iterations,
                   first_sample, base_time, candidate_time, baseline_first,
                   base_samples, candidate_samples, result, history,
                   deadline_checks>>

\* if i % 10 == 0 && Instant::now() >= deadline { break; }
LoopBreak ==
    /\ cmd = "pair" /\ pc = "loop"
    /\ i < opts.max_iterations
    /\ DeadlineGate(i) /\ now >= deadline
    /\ deadline_checks' = deadline_checks \cup {i}
    /\ exit' = "deadline"
    /\ pc' = "finish"
    /\ UNCHANGED <<cmd, sumVars, resVars, extVars, targetVars, turns_per_step, estimated, opts, now, deadline, generator, haystack, needle,
                   pilot_iterations, iterations_choices, i, iterations,
                   first_sample, base_time, candidate_time, baseline_first,
                   base_samples, candidate_samples, result, history>>

\* The loop body up to the measure calls: the haystack and the needle are
\* renewed at their frequencies and the sample size is taken from the table.
SampleStart ==
    /\ cmd = "pair" /\ pc = "loop"
    /\ i < opts.max_iterations
    /\ ~(DeadlineGate(i) /\ now >= deadline)
    /\ deadline_checks' = IF DeadlineGate(i) THEN deadline_checks \cup {i}
                          ELSE deadline_checks
    /\ LET g1 == IF Renew(i, opts.haystack_frequency) THEN next_haystack(generator)
                 ELSE generator
           g2 == IF Renew(i, opts.needle_frequency) THEN next_needle(g1) ELSE g1
       IN  /\ generator' = g2
           /\ haystack' = IF Renew(i, opts.haystack_frequency) THEN g1.haystacks
                          ELSE haystack
           /\ needle' = IF Renew(i, opts.needle_frequency) THEN g2.needles ELSE needle
    /\ iterations' = IterationsAt(iterations_choices, i)
    /\ history' = Append(history,
                         [i |-> i, haystack |-> haystack', needle |-> needle',
                          iterations |-> iterations', late |-> now >= deadline,
                          calls |-> <<>>])
    /\ pc' = "first"
    /\ UNCHANGED <<cmd, sumVars, resVars, extVars, targetVars, turns_per_step, estimated, opts, now, deadline, pilot_iterations,
                   iterations_choices, i, first_sample, base_time, candidate_time,
                   baseline_first, base_samples, candidate_samples, result, exit>>

\* The first measure call of the sample: the baseline when i is even.
MeasureFirst ==
    /\ cmd = "pair" /\ pc = "first"
    /\ \E e \in Elapsed :
        LET f == IF BaseFirst(i) THEN "base" ELSE "candidate"
            inputs == [generator |-> generator, haystack |-> haystack,
                       needle |-> needle]
            ticks == measure(f, inputs.haystack, inputs.needle, iterations)
        IN  /\ now' = now + e
            /\ first_sample' = ticks
            /\ history' = WithCall(history, Call(f, inputs, iterations, ticks))
    /\ pc' = "second"
    /\ UNCHANGED <<cmd, sumVars, resVars, extVars, targetVars, turns_per_step, estimated, opts, deadline, generator, haystack, needle,
                   pilot_iterations, iterations_choices, i, iterations, base_time,
                   candidate_time, baseline_first, base_samples,
                   candidate_samples, result, exit, deadline_checks>>

\* The second measure call of the sample and the two pushes that end it.
MeasureSecond ==
    /\ cmd = "pair" /\ pc = "second"
    /\ \E e \in Elapsed :
        LET f == IF BaseFirst(i) THEN "candidate" ELSE "base"
            inputs == SecondCallInputs(generator, haystack, needle)
            ticks == measure(f, inputs.haystack, inputs.needle, iterations)
            base_sample == IF BaseFirst(i) THEN first_sample ELSE ticks
            candidate_sample == IF BaseFirst(i) THEN ticks ELSE first_sample
        IN  /\ now' = now + e
            /\ generator' = inputs.generator
            /\ needle' = inputs.needle
            /\ haystack' = inputs.haystack
            /\ history' = WithCall(history, Call(f, inputs, iterations, ticks))
            /\ base_time' = Append(base_time, PerIteration(base_sample, iterations))
            /\ candidate_time' =
                   Append(candidate_time, PerIteration(candidate_sample, iterations))
    /\ first_sample' = 0
    /\ i' = i + 1
    /\ pc' = "loop"
    /\ UNCHANGED <<cmd, sumVars, resVars, extVars, targetVars, turns_per_step, estimated, opts, deadline, pilot_iterations,
                   iterations_choices, iterations, baseline_first, base_samples,
                   candidate_samples, result, exit, deadline_checks>>

\* After the loop: the two summaries are unwrapped (a panic when Summary::from
\* returns None) and the differences are taken.
Finish ==
    /\ cmd = "pair" /\ pc = "finish"
    /\ LET base == Root_Summary_from(base_time)
           candidate == Root_Summary_from(candidate_time)
       IN  IF base = None \/ candidate = None
           THEN /\ pc' = "panicked"
                /\ result' = None
           ELSE /\ pc' = "done"
                /\ result' = Some([base |-> Unwrap(base),
                                   candidate |-> Unwrap(candidate),
                                   diff |-> Diff(base_time, candidate_time)])
    /\ UNCHANGED <<cmd, sumVars, resVars, extVars, targetVars, turns_per_step, estimated, opts, now, deadline, generator, haystack, needle,
                   pilot_iterations, iterations_choices, i, iterations,
                   first_sample, base_time, candidate_time, baseline_first,
                   base_samples, candidate_samples, exit, history,
                   deadline_checks>>

NextPair ==
    \/ EstimateStart \/ PilotIteration \/ Setup
    \/ LoopExit \/ LoopBreak \/ SampleStart
    \/ MeasureFirst \/ MeasureSecond \/ Finish

(***************************************************************************)
(* commands::pairwise_compare (src/tango-bench/src/cli.rs).                *)
(***************************************************************************)
\* MeasureTarget::estimate_iterations: time_ms as usize * 1_000_000 / median
estimate_iterations(time_ms, median) == (time_ms * NS_TO_MS) \div median

\* The medians (in ns) the estimate's ten measurements may come to.
Medians == {0, 1000, 250000, 2000000}

\* GenAndFunc::estimate_iterations draws one haystack and EstimateNeedles
\* needles from the generator bound to the target; SimpleFunc has none.
GenAndFunc_estimate_draws(kind, g) ==
    IF kind = "generator"
    THEN [haystacks |-> g.haystacks + 1, needles |-> g.needles + EstimateNeedles]
    ELSE g

\* GenAndFunc::measure: next_haystack, then next_needles for `iters` needles,
\* from the generator bound to the target; SimpleFunc::measure draws nothing.
GenAndFunc_measure_draws(kind, g, iters) ==
    IF kind = "generator"
    THEN [haystacks |-> g.haystacks + 1, needles |-> g.needles + iters]
    ELSE g

\* What a target's measure hands to its function: the haystack just drawn and
\* the batch of needles, named by its first needle; nothing for SimpleFunc.
TargetInputs(kind, g, iters) ==
    [generator |-> GenAndFunc_measure_draws(kind, g, iters),
     haystack |-> IF kind = "generator" THEN g.haystacks + 1 ELSE 0,
     needle |-> IF kind = "generator" THEN g.needles + 1 ELSE 0]

\* The order flag set to true before the loop.
InitialBaselineFirst_true == TRUE

\* let mut baseline_first = false;
InitialBaselineFirst == FALSE

InitCompare ==
    /\ cmd = "compare"
    /\ SummaryIdle
    /\ ResultIdle
    /\ ExtIdle
    /\ targets \in {"simple", "generator"}
    /\ candidate_generator = [haystacks |-> 0, needles |-> 0]
    /\ estimated = None
    /\ turns_per_step = 1
    /\ opts = [max_iterations |-> 0, max_duration |-> 0,
               haystack_frequency |-> 1, needle_frequency |-> 1]
    /\ pc = "compare_estimate"
    /\ now = 0 /\ deadline = 0
    /\ generator = [haystacks |-> 0, needles |-> 0]
    /\ haystack = 0 /\ needle = 0
    /\ pilot_iterations = 0
    /\ iterations_choices = <<>>
    /\ i = 0 /\ iterations = 0 /\ first_sample = 0
    /\ base_time = <<>> /\ candidate_time = <<>>
    /\ baseline_first = FALSE
    /\ base_samples = <<>> /\ candidate_samples = <<>>
    /\ result = None
    /\ exit = "none"
    /\ history = <<>>
    /\ deadline_checks = {}

\* estimate = base.estimate_iterations(base_idx, 1) / 2 (a division by the
\* median, which panics when the median is 0), iterations, the deadline.
CompareEstimate ==
    /\ cmd = "compare" /\ pc = "compare_estimate"
    /\ \E median \in Medians :
        IF median = 0
        THEN /\ pc' = "panicked"
             /\ estimated' = None
             /\ UNCHANGED <<iterations, deadline>>
        ELSE LET estimate == estimate_iterations(1, median) \div 2
             IN  /\ estimated' = Some(estimate_iterations(1, median))
                 /\ iterations' = Min(Max(estimate, 1), MaxCompareIterations)
                 /\ deadline' = now + CompareDuration
                 /\ pc' = "compare_loop"
    /\ baseline_first' = InitialBaselineFirst
    /\ generator' = GenAndFunc_estimate_draws(targets, generator)
    /\ UNCHANGED <<cmd, sumVars, resVars, extVars, targetVars, turns_per_step, opts, now, haystack, needle,
                   pilot_iterations, iterations_choices, i, first_sample,
                   base_time, candidate_time, base_samples, candidate_samples,
                   result, exit, history, deadline_checks>>

\* The first run of a sample and its push: the baseline's when baseline_first.
CompareFirst ==
    /\ cmd = "compare" /\ pc = "compare_loop"
    /\ now < deadline
    /\ Len(base_samples) < MaxCompareSamples
    /\ \E e \in Elapsed :
        LET f == IF baseline_first THEN "base" ELSE "candidate"
            g == IF baseline_first THEN generator ELSE candidate_generator
            inputs == TargetInputs(targets, g, iterations)
            ticks == measure(f, inputs.haystack, inputs.needle, iterations)
        IN  /\ now' = now + e
            /\ generator' = IF baseline_first THEN inputs.generator ELSE generator
            /\ candidate_generator' = IF baseline_first THEN candidate_generator
                                      ELSE inputs.generator
            /\ history' = Append(history,
                   [i |-> Len(history), haystack |-> inputs.haystack,
                    needle |-> inputs.needle,
                    iterations |-> iterations, late |-> FALSE,
                    calls |-> <<Call(f, inputs, iterations, ticks)>>])
            /\ IF baseline_first
               THEN /\ base_samples' =
                           Append(base_samples, PerIteration(ticks, iterations))
                    /\ UNCHANGED candidate_samples
               ELSE /\ candidate_samples' =
                           Append(candidate_samples, PerIteration(ticks, iterations))
                    /\ UNCHANGED base_samples
    /\ pc' = "compare_second"
    /\ UNCHANGED <<cmd, sumVars, resVars, extVars, targets, turns_per_step, estimated, opts, deadline, haystack, needle,
                   pilot_iterations, iterations_choices, i, iterations,
                   first_sample, base_time, candidate_time, baseline_first,
                   result, exit, deadline_checks>>

\* The second run of a sample, its push, and the flip of the order flag.
CompareSecond ==
    /\ cmd = "compare" /\ pc = "compare_second"
    /\ \E e \in Elapsed :
        LET f == IF baseline_first THEN "candidate" ELSE "base"
            g == IF baseline_first THEN candidate_generator ELSE generator
            inputs == TargetInputs(targets, g, iterations)
            ticks == measure(f, inputs.haystack, inputs.needle, iterations)
        IN  /\ now' = now + e
            /\ generator' = IF baseline_first THEN generator ELSE inputs.generator
            /\ candidate_generator' = IF baseline_first THEN inputs.generator
                                      ELSE candidate_generator
            /\ history' = WithCall(history, Call(f, inputs, iterations, ticks))
            /\ IF baseline_first
               THEN /\ candidate_samples' =
                           Append(candidate_samples, PerIteration(ticks, iterations))
                    /\ UNCHANGED base_samples
               ELSE /\ base_samples' =
                           Append(base_samples, PerIteration(ticks, iterations))
                    /\ UNCHANGED candidate_samples
    /\ baseline_first' = ~baseline_first
    /\ pc' = "compare_loop"
    /\ UNCHANGED <<cmd, sumVars, resVars, extVars, targets, turns_per_step, estimated, opts, deadline, haystack, needle,
                   pilot_iterations, iterations_choices, i, iterations,
                   first_sample, base_time, candidate_time, result, exit,
                   deadline_checks>>

\* while Instant::now() < deadline ends; the differences and the summaries.
CompareFinish ==
    /\ cmd = "compare" /\ pc = "compare_loop"
    /\ now >= deadline
    /\ LET base_summary == Summary_from(base_samples)
           candidate_summary == Summary_from(candidate_samples)
       IN  IF base_summary = None \/ candidate_summary = None
           THEN /\ pc' = "panicked"
                /\ result' = None
           ELSE /\ pc' = "done"
                /\ result' = Some([base |-> Unwrap(base_summary),
                                   candidate |-> Unwrap(candidate_summary),
                                   diff |-> Diff(base_samples, candidate_samples)])
    /\ exit' = "deadline"
    /\ UNCHANGED <<cmd, sumVars, resVars, extVars, targetVars, turns_per_step, estimated, opts, now, deadline, generator, haystack, needle,
                   pilot_iterations, iterations_choices, i, iterations,
                   first_sample, base_time, candidate_time, baseline_first,
                   base_samples, candidate_samples, history, deadline_checks>>

NextCompare == CompareEstimate \/ CompareFirst \/ CompareSecond \/ CompareFinish

(***************************************************************************)
(* iqr_variance_thresholds and calculate_run_result (both crates; the line *)
(* numbers in the comments are those of src/tango-bench/src/lib.rs).       *)
(***************************************************************************)
\* f64 comparisons on the exact fractions (denominators are positive).
FLt(a, b) == a.num * b.den < b.num * a.den
FAbs(a) == [num |-> Abs(a.num), den |-> a.den]

\* input.sort()
RECURSIVE Insert(_, _)
Insert(q, v) ==
    IF q = <<>> THEN <<v>>
    ELSE IF v <= Head(q) THEN <<v>> \o q
    ELSE <<Head(q)>> \o Insert(Tail(q), v)

RECURSIVE sort(_)
sort(q) == IF q = <<>> THEN <<>> ELSE Insert(sort(Tail(q)), Head(q))

\* input[idx], indices counted from 0 as in the source
At(q, idx) == q[idx + 1]

\* slice.binary_search(&x) with Ok(idx) | Err(idx) => idx: the index of a
\* match (any of them when there are several), else the insertion point.
binary_search(slice, x) ==
    LET found == {k \in 0..(Len(slice) - 1) : At(slice, k) = x}
    IN  IF found # {} THEN found
        ELSE {Cardinality({k \in 0..(Len(slice) - 1) : At(slice, k) < x})}

\* The end of iqr_variance_thresholds, from the two indices on.
IqrOutcome(s, low_threshold_idx, high_threshold_idx) ==
    IF low_threshold_idx = 0 \/ high_threshold_idx >= Len(s) THEN None
    ELSE LET outliers_cnt == Min(low_threshold_idx, Len(s) - high_threshold_idx)
         IN  Some([min |-> At(s, outliers_cnt), max |-> At(s, Len(s) - outliers_cnt)])

\* iqr_variance_thresholds: the set of values it may return (one value unless
\* a binary search has several matches to choose from).
iqr_variance_thresholds(input) ==
    LET s == sort(input)
        n == Len(s)
        q1 == n \div 4
        q3 == (n * 3) \div 4
    IN  IF q1 >= q3 \/ q3 >= n \/ At(s, q1) >= At(s, q3) THEN {None}
        ELSE LET iqr == At(s, q3) - At(s, q1)
                 low_threshold == At(s, q1) - iqr * FACTOR
                 high_threshold == At(s, q3) + iqr * FACTOR
             IN  {IqrOutcome(s, lo, hi) :
                     lo \in binary_search(SubSeq(s, 1, q1), low_threshold),
                     hi \in binary_search(SubSeq(s, q3 + 1, n), high_threshold)}

\* The filter keeping the values on a threshold as well.
Keeps_inclusive(x, th) == th = None \/ (Unwrap(th).min <= x /\ x <= Unwrap(th).max)

\* .unwrap_or((i64::MIN, i64::MAX)) and the filter min < *i && *i < max.  The
\* differences drawn here lie strictly inside the range of i64.
Keeps(x, th) == th = None \/ (Unwrap(th).min < x /\ x < Unwrap(th).max)

\* diff.iter().copied().filter(..).collect()
Filter(d, th) == SelectSeq(d, LAMBDA x : Keeps(x, th))

\* The test on z with the division by a zero standard error taken for 0.
ZScoreAtLeast26_zero_is_false(mean, variance, n) ==
    /\ variance.num # 0
    /\ ~FLt(FMul(to_f64(25 * n), FMul(mean, mean)), FMul(to_f64(169), variance))

\* z_score.abs() >= 2.6 with z_score = mean / (sqrt(variance) / sqrt(n)),
\* compared on the squares (2.6^2 = 169/25).  In f64 a non-zero mean over a
\* zero standard error is infinite and 0/0 is NaN, which compares false.
ZScoreAtLeast26(mean, variance, n) ==
    IF variance.num = 0 THEN mean.num # 0
    ELSE ~FLt(FMul(to_f64(25 * n), FMul(mean, mean)), FMul(to_f64(169), variance))

\* The ratio test with >= in the place of >.
RatioAbove_inclusive(mean, cmean) ==
    IF cmean.num = 0 THEN mean.num # 0
    ELSE ~FLt(FMul(to_f64(200), FAbs(mean)), FAbs(cmean))

\* (diff_summary.mean / candidate.mean).abs() > 0.005, 0.005 being 1/200
RatioAbove(mean, cmean) ==
    IF cmean.num = 0 THEN mean.num # 0
    ELSE FLt(FAbs(cmean), FMul(to_f64(200), FAbs(mean)))

\* The number of filtered outliers counted against the unfiltered summary.
OutliersFiltered_stale(n, kept) == 0

\* let outliers_filtered = n - diff_summary.n
OutliersFiltered(n, kept) == n - kept

\* The vectors of differences tried: every multiset of up to MaxDiffLen of
\* these values, in ascending and in descending order.
DiffValues == {-47, -6, -5, 0, 1, 2, 3}

RECURSIVE Ascending(_)
Ascending(n) ==
    IF n = 0 THEN {<<>>}
    ELSE LET shorter == Ascending(n - 1)
             longest == {r \in shorter : Len(r) = n - 1}
         IN  shorter \cup
             UNION {{Append(q, v) : v \in {w \in DiffValues :
                                               q = <<>> \/ q[Len(q)] <= w}} :
                    q \in longest}

Reverse(q) == [k \in 1..Len(q) |-> q[Len(q) + 1 - k]]

\* The candidate means tried: 0, one that a mean difference of 2 is exactly
\* 0.5% of, and one that dwarfs every difference.
CandidateMeans == {to_f64(0), to_f64(400), to_f64(1000000)}

InitResult ==
    /\ cmd = "result"
    /\ SummaryIdle
    /\ LoopIdle
    /\ ExtIdle
    /\ \E q \in Ascending(MaxDiffLen) : diff = q \/ diff = Reverse(q)
    /\ filter_outliers \in BOOLEAN
    /\ candidate_mean \in CandidateMeans
    /\ thresholds = None /\ measurements = <<>> /\ run_result = None
    /\ rpc = "call"

\* calculate_run_result, with the Summary::from of the crate it belongs to:
\* the thresholds, the filter, the summary of what was kept (unwrapped: a
\* panic when there is none), and the RunResult.
calculate_run_result ==
    /\ cmd = "result" /\ rpc = "call"
    /\ \E crate \in {"bench", "root"},
          th \in (IF filter_outliers THEN iqr_variance_thresholds(diff) ELSE {None}) :
        \E kept \in {IF filter_outliers THEN Filter(diff, th) ELSE diff} :
        \E diff_summary \in {IF crate = "bench" THEN Summary_from(kept)
                             ELSE Root_Summary_from(kept)} :
            /\ impl' = crate
            /\ thresholds' = th
            /\ measurements' = kept
            /\ IF diff_summary = None
               THEN /\ rpc' = "panicked"
                    /\ run_result' = None
               ELSE \E ds \in {Unwrap(diff_summary)} :
                        /\ rpc' = "returned"
                        /\ run_result' = Some(
                             [diff |-> ds,
                              significant |->
                                  ZScoreAtLeast26(ds.mean, ds.variance, ds.n)
                                  /\ RatioAbove(ds.mean, candidate_mean),
                              outliers |-> OutliersFiltered(Len(diff), ds.n)])
    /\ UNCHANGED <<cmd, xs, running, emitted, from_result, spc, loopVars,
                   targetVars, extVars, diff,
                   filter_outliers, candidate_mean>>

NextResult == calculate_run_result

SpecResult == InitResult /\ [][NextResult]_vars

(***************************************************************************)
(* Benchmark (src/src/lib.rs): the registry of pairs, run_by_name and      *)
(* run_calibration.  Names and keys are strings, modelled as sequences of  *)
(* bytes; the BTreeMap is the sequence of its entries in key order.        *)
(***************************************************************************)
\* The names functions are registered under: "a", "a-" and "-a".
Names == {<<97>>, <<97, 45>>, <<45, 97>>}

\* Ord for String: byte-wise lexicographic order.
RECURSIVE StrLess(_, _)
StrLess(a, b) ==
    IF a = <<>> THEN b # <<>>
    ELSE IF b = <<>> THEN FALSE
    ELSE IF Head(a) = Head(b) THEN StrLess(Tail(a), Tail(b))
    ELSE Head(a) < Head(b)

\* str::contains: pat occurs in s as a substring.
contains(s, pat) ==
    \E k \in 0..(Len(s) - Len(pat)) : SubSeq(s, k + 1, k + Len(pat)) = pat

\* format!("{}-{}", baseline.name(), candidate.name())
format_key(baseline, candidate) == baseline \o <<45>> \o candidate

\* An insert that leaves an entry already under the key as it is.
BTreeMap_insert_keeps_old(map, key, value) ==
    IF \E k \in 1..Len(map) : map[k].key = key
    THEN map
    ELSE LET n == Cardinality({k \in 1..Len(map) : StrLess(map[k].key, key)})
         IN  SubSeq(map, 1, n) \o <<[key |-> key, value |-> value]>>
                 \o SubSeq(map, n + 1, Len(map))

\* BTreeMap::insert: the value under a key already present is replaced, a new
\* key takes its place in key order.
BTreeMap_insert(map, key, value) ==
    IF \E k \in 1..Len(map) : map[k].key = key
    THEN [k \in 1..Len(map) |->
             IF map[k].key = key THEN [key |-> key, value |-> value] ELSE map[k]]
    ELSE LET n == Cardinality({k \in 1..Len(map) : StrLess(map[k].key, key)})
         IN  SubSeq(map, 1, n) \o <<[key |-> key, value |-> value]>>
                 \o SubSeq(map, n + 1, Len(map))

\* list_functions: self.funcs.keys()
list_functions == [k \in 1..Len(funcs) |-> funcs[k].key]

\* The filter matched against the key alone.
Matches_key_only(key, gname, filter) == contains(key, filter)

\* key.contains(name_filter) || generator_name.contains(name_filter)
Matches(key, gname, filter) ==
    contains(key, filter) \/ contains(gname, filter)

\* One call of every reporter, in the order of self.reporters.
Notify(kind, arg) == [r \in 1..reporters |-> [reporter |-> r, kind |-> kind, arg |-> arg]]

\* Whether try number `try` of calibrate(a, b, ..) comes out significant: the
\* measurements are the environment's, taken from a few patterns.
Verdicts == {"never", "always", "different", "odd tries"}
Significant(a, b, try) ==
    CASE verdicts = "never" -> FALSE
      [] verdicts = "always" -> TRUE
      [] verdicts = "different" -> a # b
      [] OTHER -> try % 2 = 1

\* calibrate: `tries` times measure_function_pair and calculate_run_result,
\* counting the significant results; `measurements` counts the calls.
RECURSIVE calibrate_from(_, _, _, _, _)
calibrate_from(a, b, tries, try, acc) ==
    IF try >= tries THEN acc
    ELSE calibrate_from(a, b, tries, try + 1,
             [succeed |-> acc.succeed + (IF Significant(a, b, try) THEN 1 ELSE 0),
              measurements |-> acc.measurements + 1])

calibrate(a, b, tries) ==
    calibrate_from(a, b, tries, 0, [succeed |-> 0, measurements |-> 0])

\* The H0 line printed with the number of significant results itself.
H0Reported_significant(tries, significant) == significant

\* TRIES - significant, in usize: the subtraction panics below zero, which
\* the model shows as a negative number.
H0Reported(tries, significant) == tries - significant

\* One calibrate call and the number printed for it.
Calibrated(hypothesis, a, b, run, printed) ==
    [hypothesis |-> hypothesis, baseline |-> a, candidate |-> b,
     measurements |-> run.measurements, significant |-> run.succeed,
     printed |-> printed]

Filters == {<<>>, <<97>>, <<45, 45>>, <<103>>}
GeneratorNames == {<<103>>, <<97, 97>>}

\* Benchmark::new
InitBenchmark ==
    /\ cmd = "benchmark"
    /\ SummaryIdle /\ LoopIdle /\ ResultIdle
    /\ funcs = <<>> /\ added = <<>> /\ reporters = 0
    /\ bpc = "build"
    /\ name_filter = <<>> /\ generator_name = <<>>
    /\ verdicts = "never"
    /\ cursor = 0 /\ start_reported = FALSE
    /\ events = <<>> /\ calibration = <<>>
    /\ MeasureIdle /\ ThresholdsIdle

benchUnchanged == <<cmd, sumVars, loopVars, targetVars, resVars, measVars, mvVars>>

add_reporter ==
    /\ cmd = "benchmark" /\ bpc = "build"
    /\ reporters < MaxReporters
    /\ reporters' = reporters + 1
    /\ UNCHANGED <<benchUnchanged, funcs, added, bpc, name_filter, generator_name,
                   cursor, start_reported, events, verdicts, calibration>>

\* add_pair: the pair is told from every other by the number of the call.
add_pair ==
    /\ cmd = "benchmark" /\ bpc = "build"
    /\ Len(added) < MaxPairs
    /\ \E baseline \in Names, candidate \in Names :
        LET pair == [baseline |-> baseline, candidate |-> candidate,
                     id |-> Len(added) + 1]
            key == format_key(baseline, candidate)
        IN  /\ funcs' = BTreeMap_insert(funcs, key, pair)
            /\ added' = Append(added, pair)
    /\ UNCHANGED <<benchUnchanged, bpc, reporters, name_filter, generator_name,
                   cursor, start_reported, events, verdicts, calibration>>

\* run_by_name up to its loop, with the filter of its options and the name
\* of the generator it is given.
run_by_name_enter ==
    /\ cmd = "benchmark" /\ bpc = "build"
    /\ bpc' = "run"
    /\ name_filter' \in Filters
    /\ generator_name' \in GeneratorNames
    /\ cursor' = 1
    /\ start_reported' = FALSE
    /\ UNCHANGED <<benchUnchanged, funcs, added, reporters, events, verdicts,
                   calibration>>

\* One turn of the loop of run_by_name: a pair that matches is announced (the
\* first one after on_start), measured, and reported; measure_function_pair
\* and calculate_run_result may panic, which ends the run.
run_by_name_pair ==
    /\ cmd = "benchmark" /\ bpc = "run"
    /\ cursor <= Len(funcs)
    /\ LET key == funcs[cursor].key
           starts == IF start_reported THEN <<>>
                     ELSE Notify("on_start", generator_name)
       IN  IF Matches(key, generator_name, name_filter)
           THEN \E returned \in BOOLEAN :
                   /\ start_reported' = TRUE
                   /\ IF returned
                      THEN /\ events' = events \o starts \o Notify("on_complete", key)
                           /\ bpc' = "run"
                           /\ cursor' = cursor + 1
                      ELSE /\ events' = events \o starts
                           /\ bpc' = "panicked"
                           /\ cursor' = cursor
           ELSE /\ cursor' = cursor + 1
                /\ UNCHANGED <<start_reported, events, bpc>>
    /\ UNCHANGED <<benchUnchanged, funcs, added, reporters, name_filter,
                   generator_name, verdicts, calibration>>

\* The loop of run_by_name is over: the method returns.
run_by_name_return ==
    /\ cmd = "benchmark" /\ bpc = "run"
    /\ cursor > Len(funcs)
    /\ bpc' = "ran"
    /\ UNCHANGED <<benchUnchanged, funcs, added, reporters, name_filter,
                   generator_name, cursor, start_reported, events, verdicts,
                   calibration>>

\* run_calibration up to its first loop, with the measurements the
\* environment is going to give.
run_calibration_enter ==
    /\ cmd = "benchmark" /\ bpc = "build"
    /\ bpc' = "h0"
    /\ verdicts' \in Verdicts
    /\ cursor' = 1
    /\ UNCHANGED <<benchUnchanged, funcs, added, reporters, name_filter,
                   generator_name, start_reported, events, calibration>>

\* One turn of the H0 loop: calibrate(baseline, baseline), its line,
\* calibrate(candidate, candidate), its line.  A measure_function_pair or
\* calculate_run_result that panics inside a calibrate call ends the run
\* before the line of that call.
run_calibration_h0 ==
    /\ cmd = "benchmark" /\ bpc = "h0"
    /\ cursor <= Len(funcs)
    /\ LET baseline == funcs[cursor].value.baseline
           candidate == funcs[cursor].value.candidate
           first == calibrate(baseline, baseline, TRIES)
           second == calibrate(candidate, candidate, TRIES)
           lines == <<Calibrated("H0", baseline, baseline, first,
                                 H0Reported(TRIES, first.succeed)),
                      Calibrated("H0", candidate, candidate, second,
                                 H0Reported(TRIES, second.succeed))>>
       IN  \E returned \in 0..2 :
               /\ calibration' = calibration \o SubSeq(lines, 1, returned)
               /\ bpc' = IF returned = 2 THEN "h0" ELSE "calibration panicked"
               /\ cursor' = IF returned = 2 THEN cursor + 1 ELSE cursor
    /\ UNCHANGED <<benchUnchanged, funcs, added, reporters, name_filter,
                   generator_name, start_reported, events, verdicts>>

\* The H0 loop is over: the H1 loop starts.
run_calibration_h1_enter ==
    /\ cmd = "benchmark" /\ bpc = "h0"
    /\ cursor > Len(funcs)
    /\ bpc' = "h1"
    /\ cursor' = 1
    /\ UNCHANGED <<benchUnchanged, funcs, added, reporters, name_filter,
                   generator_name, start_reported, events, verdicts, calibration>>

\* One turn of the H1 loop: calibrate(baseline, candidate) and its line.
run_calibration_h1 ==
    /\ cmd = "benchmark" /\ bpc = "h1"
    /\ cursor <= Len(funcs)
    /\ LET baseline == funcs[cursor].value.baseline
           candidate == funcs[cursor].value.candidate
           run == calibrate(baseline, candidate, TRIES)
       IN  \E returned \in BOOLEAN :
               IF returned
               THEN /\ calibration' = Append(calibration,
                           Calibrated("H1", baseline, candidate, run, run.succeed))
                    /\ cursor' = cursor + 1
                    /\ bpc' = "h1"
               ELSE /\ bpc' = "calibration panicked"
                    /\ UNCHANGED <<calibration, cursor>>
    /\ UNCHANGED <<benchUnchanged, funcs, added, reporters, name_filter,
                   generator_name, start_reported, events, verdicts>>

\* The H1 loop is over: run_calibration returns.
run_calibration_return ==
    /\ cmd = "benchmark" /\ bpc = "h1"
    /\ cursor > Len(funcs)
    /\ bpc' = "calibrated"
    /\ UNCHANGED <<benchUnchanged, funcs, added, reporters, name_filter,
                   generator_name, cursor, start_reported, events, verdicts,
                   calibration>>

NextBenchmark ==
    \/ add_reporter \/ add_pair
    \/ run_by_name_enter \/ run_by_name_pair \/ run_by_name_return
    \/ run_calibration_enter \/ run_calibration_h0 \/ run_calibration_h1_enter
    \/ run_calibration_h1 \/ run_calibration_return

SpecBenchmark == InitBenchmark /\ [][NextBenchmark]_vars

(***************************************************************************)
(* One measure call, step by step (src/tango-bench/src/lib.rs): Func,      *)
(* SetupFunc and SimpleFunc, the first two also behind GenAndFunc.         *)
(***************************************************************************)
\* The measures there are: a BenchmarkFn called with a haystack and needles,
\* the same behind GenAndFunc::measure, and the zero-argument SimpleFunc.
Targets ==
    {[func |-> "Func", generator |-> FALSE],
     [func |-> "SetupFunc", generator |-> FALSE],
     [func |-> "Func", generator |-> TRUE],
     [func |-> "SetupFunc", generator |-> TRUE],
     [func |-> "SimpleFunc", generator |-> FALSE]}

\* Generator::next_needles, the default: `size` times next_needle.
next_needles(size) == size

\* The order of the statements with the setup run after the timer started.
measure_step_setup_timed(func, at) ==
    CASE at = "allocate" -> "start"
      [] at = "start" -> IF func = "SetupFunc" THEN "setup" ELSE "loop"
      [] at = "setup" -> "loop"
      [] at = "loop" -> "stop"
      [] at = "stop" -> "drop"
      [] OTHER -> "return"

\* The statement that follows statement `at` in the measure of `func`:
\* Vec::with_capacity, (self.setup)(haystack) in SetupFunc alone,
\* ActiveTimer::start, the loop, ActiveTimer::stop, drop, the return.
measure_step(func, at) ==
    CASE at = "allocate" -> IF func = "SetupFunc" THEN "setup" ELSE "start"
      [] at = "setup" -> "start"
      [] at = "start" -> "loop"
      [] at = "loop" -> "stop"
      [] at = "stop" -> "drop"
      [] OTHER -> "return"

InitMeasure ==
    /\ cmd = "measure"
    /\ SummaryIdle /\ LoopIdle /\ ResultIdle /\ BenchmarkIdle /\ ThresholdsIdle
    /\ target \in Targets
    /\ requested \in 0..MaxIterations
    /\ mpc = IF target.generator THEN "generate" ELSE "allocate"
    /\ needles = IF target.generator \/ target.func = "SimpleFunc" THEN None
                 ELSE Some(requested)
    /\ results = "none"
    /\ trace = <<>>

measUnchanged == <<cmd, sumVars, loopVars, targetVars, resVars, benchVars, mvVars>>

\* GenAndFunc::measure up to self.f.measure: the haystack, then the needles.
GenAndFunc_measure ==
    /\ cmd = "measure" /\ mpc = "generate"
    /\ needles' = Some(next_needles(requested))
    /\ trace' = trace \o <<"next_haystack", "next_needles">>
    /\ mpc' = "allocate"
    /\ UNCHANGED <<measUnchanged, target, requested, results>>

\* let mut results = Vec::with_capacity(iterations)
measure_allocate ==
    /\ cmd = "measure" /\ mpc = "allocate"
    /\ results' = <<0>>
    /\ mpc' = measure_step(target.func, "allocate")
    /\ UNCHANGED <<measUnchanged, target, requested, needles, trace>>

\* let haystack = (self.setup)(haystack)
measure_setup ==
    /\ cmd = "measure" /\ mpc = "setup"
    /\ trace' = Append(trace, "setup")
    /\ mpc' = measure_step(target.func, "setup")
    /\ UNCHANGED <<measUnchanged, target, requested, needles, results>>

\* let start = ActiveTimer::start()
measure_timer_start ==
    /\ cmd = "measure" /\ mpc = "start"
    /\ trace' = Append(trace, "start")
    /\ mpc' = measure_step(target.func, "start")
    /\ UNCHANGED <<measUnchanged, target, requested, needles, results>>

\* One turn of the loop: `for needle in needles`, or `for _ in 0..iterations`
\* in SimpleFunc: the function is called and its result pushed.
measure_call ==
    /\ cmd = "measure" /\ mpc = "loop"
    /\ results[1] < (IF target.func = "SimpleFunc" THEN requested ELSE Unwrap(needles))
    /\ results' = <<results[1] + 1>>
    /\ trace' = Append(trace, "call")
    /\ UNCHANGED <<measUnchanged, target, requested, needles, mpc>>

\* The loop is over.
measure_loop_end ==
    /\ cmd = "measure" /\ mpc = "loop"
    /\ results[1] >= (IF target.func = "SimpleFunc" THEN requested ELSE Unwrap(needles))
    /\ mpc' = measure_step(target.func, "loop")
    /\ UNCHANGED <<measUnchanged, target, requested, needles, results, trace>>

\* let time = ActiveTimer::stop(start)
measure_timer_stop ==
    /\ cmd = "measure" /\ mpc = "stop"
    /\ trace' = Append(trace, "stop")
    /\ mpc' = measure_step(target.func, "stop")
    /\ UNCHANGED <<measUnchanged, target, requested, needles, results>>

\* drop(results), and the time returned.
measure_drop ==
    /\ cmd = "measure" /\ mpc = "drop"
    /\ results' = "dropped"
    /\ trace' = Append(trace, "drop")
    /\ mpc' = measure_step(target.func, "drop")
    /\ UNCHANGED <<measUnchanged, target, requested, needles>>

NextMeasure ==
    \/ GenAndFunc_measure \/ measure_allocate \/ measure_setup
    \/ measure_timer_start \/ measure_call \/ measure_loop_end
    \/ measure_timer_stop \/ measure_drop

SpecMeasure == InitMeasure /\ [][NextMeasure]_vars

(***************************************************************************)
(* max_variance_thresholds and binomial_interval_approximation             *)
(* (src/src/lib.rs), in exact arithmetic.                                  *)
(***************************************************************************)
\* input.sort_by_key(|a| a.abs()): a stable sort by magnitude.
RECURSIVE InsertByAbs(_, _)
InsertByAbs(q, v) ==
    IF q = <<>> THEN <<v>>
    ELSE IF Abs(v) < Abs(Head(q)) THEN <<v>> \o q
    ELSE <<Head(q)>> \o InsertByAbs(Tail(q), v)

RECURSIVE sort_by_key_abs(_)
sort_by_key_abs(q) ==
    IF q = <<>> THEN <<>>
    ELSE InsertByAbs(sort_by_key_abs(SubSeq(q, 1, Len(q) - 1)), q[Len(q)])

\* RunningVariance::next for every value of the iterator: the sequence of
\* the variances it yields, from the state (m, s, n) it has reached.
RECURSIVE RunningVariance(_, _)
RunningVariance(values, st) ==
    IF values = <<>> THEN <<>>
    ELSE LET value == to_f64(Head(values))
             n == st.n + 1
             m_p == st.m
             m == FAdd(st.m, FDiv(FSub(value, st.m), to_f64(n)))
             s == FAdd(st.s, FMul(FSub(value, m_p), FSub(value, m)))
             item == IF n = 1 THEN FZero ELSE FDiv(s, to_f64(n - 1))
         IN  <<item>> \o RunningVariance(Tail(values), [m |-> m, s |-> s, n |-> n])

\* RunningVariance::from
RunningVariance_from(values) ==
    RunningVariance(values, [m |-> FZero, s |-> FZero, n |-> 0])

\* binomial_interval_approximation(n, 0.5, 0.5), as max_variance_thresholds
\* calls it: None when n * 0.5 < 10, else mu = n/2, sigma = sqrt(n)/2,
\* min = floor(mu + sigma * z) with z = inverse_cdf(0.25) of the standard
\* normal distribution (z = -0.67449.., z * z = 0.45494..), max = n - min.
\* The floor is the largest m with n - 2m >= 0 and (n - 2m)^2 >= z * z * n.
binomial_interval_approximation(n) ==
    IF n < 2 * MinExpected THEN None
    ELSE LET min == CHOOSE m \in 0..n :
                        /\ 2 * m <= n
                        /\ (n - 2 * m) * (n - 2 * m) * 100000 >= 45494 * n
                        /\ \A l \in (m + 1)..n :
                               ~(/\ 2 * l <= n
                                 /\ (n - 2 * l) * (n - 2 * l) * 100000 >= 45494 * n)
         IN  Some([min |-> min, max |-> n - min])

\* The thresholds with the sign of the value left as it is.
Thresholds_signed(value) == [min |-> -value, max |-> value]

\* (-value.abs(), value.abs())
Thresholds(value) == [min |-> -Abs(value), max |-> Abs(value)]

\* min > candidate_outliers && candidate_outliers < max
BalanceTest(min, max, candidate_outliers) ==
    min > candidate_outliers /\ candidate_outliers < max

\* The loop of max_variance_thresholds from position idx (counted from 0) of
\* the sorted input: what it returns, and for an accepted split the numbers
\* the decision was taken on.
RECURSIVE Scan(_, _, _, _, _, _)
Scan(sorted, variance, idx, outliers_cnt, candidate_outliers, prev_variance) ==
    IF idx >= Len(sorted) THEN [result |-> None, decision |-> None]
    ELSE LET value == At(sorted, idx)
             var == At(variance, idx)
             jump ==
                 /\ FLt(FZero, prev_variance)
                 /\ FLt(FDiv(to_f64(BudgetNumerator),
                             to_f64(Len(sorted) - outliers_cnt)),
                        FSub(FDiv(var, prev_variance), to_f64(1)))
             interval == binomial_interval_approximation(outliers_cnt)
             accepted ==
                 [result |-> Some(Thresholds(value)),
                  decision |-> Some([value |-> value, n |-> outliers_cnt,
                                     candidate_outliers |-> candidate_outliers,
                                     interval |-> interval])]
             next == Scan(sorted, variance, idx + 1, outliers_cnt - 1,
                          IF value < 0 THEN candidate_outliers - 1
                          ELSE candidate_outliers,
                          var)
         IN  IF ~jump THEN next
             ELSE IF interval = None THEN accepted
             ELSE IF BalanceTest(Unwrap(interval).min, Unwrap(interval).max,
                                 candidate_outliers)
                  THEN accepted
                  ELSE next

\* input[skip..].iter().filter(|i| **i < 0).count()
CountNegative(sorted, skip) ==
    Cardinality({k \in (skip + 1)..Len(sorted) : sorted[k] < 0})

\* The input of tests::check_filter_outliers.
TestInput == <<1, -2, 3, -4, 5, -6, 7, -8, 9, -10, 101, -102>>

\* The inputs taken value by value, and long ones: two small values and
\* LargeValues large ones, of which the first `negative` (or all but the
\* first `negative`) are negative.
ThresholdValues == {-40, -1, 0, 1, 40}
LongInput(negative, negative_first) ==
    <<0, 1>> \o [k \in 1..LargeValues |->
                    IF (k <= negative) = negative_first THEN -40 ELSE 40]
LongInputs ==
    {LongInput(negative, first) : negative \in 0..LargeValues, first \in BOOLEAN}

InitThresholds ==
    /\ cmd = "thresholds"
    /\ SummaryIdle /\ LoopIdle /\ ResultIdle /\ BenchmarkIdle /\ MeasureIdle
    /\ \/ /\ mv_input \in SeqsUpTo(ThresholdValues, MaxInputLen)
          /\ mv_outliers_cnt \in 0..(Len(mv_input) + 1)
       \/ /\ mv_input \in LongInputs
          /\ mv_outliers_cnt \in (Len(mv_input) - 2)..Len(mv_input)
       \/ /\ mv_input = TestInput
          /\ mv_outliers_cnt \in 1..4
    /\ mv_result = None /\ mv_decision = None
    /\ mv_pc = "call"

\* max_variance_thresholds: input.len() - outliers_cnt panics below zero.
max_variance_thresholds ==
    /\ cmd = "thresholds" /\ mv_pc = "call"
    /\ IF mv_outliers_cnt > Len(mv_input)
       THEN /\ mv_pc' = "panicked"
            /\ UNCHANGED <<mv_result, mv_decision>>
       ELSE \E sorted \in {sort_by_key_abs(mv_input)} :
            \E variance \in {RunningVariance_from(sorted)} :
            \E skip \in {Len(mv_input) - mv_outliers_cnt} :
            \E out \in {Scan(sorted, variance, skip, mv_outliers_cnt,
                             CountNegative(sorted, skip), FZero)} :
                /\ mv_result' = out.result
                /\ mv_decision' = out.decision
                /\ mv_pc' = "returned"
    /\ UNCHANGED <<cmd, sumVars, loopVars, targetVars, resVars, benchVars,
                   measVars, mv_input, mv_outliers_cnt>>

NextThresholds == max_variance_thresholds

SpecThresholds == InitThresholds /\ [][NextThresholds]_vars

(***************************************************************************)
(* The two loops together: the command decides which one runs.             *)
(***************************************************************************)
Init == InitPair \/ InitCompare

Next == NextPair \/ NextCompare

Spec == Init /\ [][Next]_vars

\* The steps of the pilot loop and of the main loop of measure_function_pair.
LoopStep ==
    \/ EstimateStart \/ PilotIteration \/ Setup
    \/ LoopExit \/ LoopBreak \/ SampleStart \/ MeasureFirst \/ MeasureSecond

\* measure_function_pair as a program that keeps running: a step of its loops
\* that can be taken is taken, that is, every measure call and every generator
\* draw returns.  The clock's advance is the environment's: the pilot loop is
\* followed for at most MaxPilot steps, the last of which passes its deadline.
FairSpec == InitPair /\ [][NextPair]_vars /\ WF_vars(LoopStep)

(***************************************************************************)
(* Claims about the paired loops (checked under Spec).                     *)
(***************************************************************************)
Samples == 1..Len(history)
Complete(k) == Len(history[k].calls) = 2
LateSamples == {k \in Samples : history[k].late}
AtSampleBoundary == pc \in {"loop", "finish", "done", "panicked"}

\* The ticks the call of function f returned in sample k.
TicksOf(k, f) ==
    LET c == CHOOSE c \in {history[k].calls[1], history[k].calls[2]} : c.f = f
    IN  c.ticks

\* C1: in both paired loops the baseline and the candidate vectors have the
\* same length after every sample, and the returned diff has that length
\* with diff[k] = candidate[k] - baseline[k] at every index.
C1_PairedVectors ==
    /\ (cmd = "pair" /\ pc # "estimate" /\ pc # "pilot") =>
           /\ Len(base_time) = Len(candidate_time)
           /\ Len(base_time) = i
    /\ (cmd = "compare" /\ pc \in {"compare_loop", "done"}) =>
           Len(base_samples) = Len(candidate_samples)
    /\ IsSome(result) =>
           LET b == IF cmd = "pair" THEN base_time ELSE base_samples
               c == IF cmd = "pair" THEN candidate_time ELSE candidate_samples
               d == Unwrap(result).diff
           IN  /\ Len(d) = Len(b) /\ Len(d) = Len(c)
               /\ \A k \in 1..Len(d) : d[k] = c[k] - b[k]

\* C1 witness: measure_function_pair has returned three or more differences,
\* one of them negative and one positive.
C1_Witness ==
    /\ cmd = "pair" /\ pc = "done" /\ IsSome(result)
    /\ Len(Unwrap(result).diff) >= 3
    /\ \E j, k \in 1..Len(Unwrap(result).diff) :
           Unwrap(result).diff[j] < 0 /\ Unwrap(result).diff[k] > 0

\* C2: in measure_function_pair every sample is exactly two measure calls,
\* one after the other, the baseline first exactly when the index is even.
C2_OrderFollowsParity ==
    cmd = "pair" =>
        \A k \in Samples :
            LET s == history[k]
                first == IF s.i % 2 = 0 THEN "base" ELSE "candidate"
                second == IF s.i % 2 = 0 THEN "candidate" ELSE "base"
            IN  /\ s.i = k - 1
                /\ Len(s.calls) <= 2
                /\ (k < Len(history) \/ AtSampleBoundary) => Complete(k)
                /\ Len(s.calls) >= 1 => s.calls[1].f = first
                /\ Len(s.calls) = 2 => s.calls[2].f = second

\* C2 witness: sample 0 measured the baseline first and sample 1 has measured
\* the candidate first and then the baseline.
C2_Witness ==
    /\ cmd = "pair" /\ Len(history) >= 2 /\ Complete(2)
    /\ history[1].calls[1].f = "base" /\ history[1].calls[2].f = "candidate"
    /\ history[2].calls[1].f = "candidate" /\ history[2].calls[2].f = "base"

\* C3: in measure_function_pair both measure calls of a sample are given the
\* same haystack and the same needle, and the generator is not advanced
\* between them.
C3_SameInputsWithinSample ==
    cmd = "pair" =>
        \A k \in Samples :
            \A c \in 1..Len(history[k].calls) :
                /\ history[k].calls[c].haystack = history[k].haystack
                /\ history[k].calls[c].needle = history[k].needle
                /\ history[k].calls[c].generator = history[k].calls[1].generator

\* C3 witness: a complete sample on a haystack and a needle other than those
\* of the sample before it.
C3_Witness ==
    /\ cmd = "pair"
    /\ \E k \in Samples :
           /\ k >= 2 /\ Complete(k)
           /\ history[k].haystack # history[k - 1].haystack
           /\ history[k].needle # history[k - 1].needle

\* C4: sample i runs both functions for iterations_choices[(i/2) mod len]
\* iterations, so samples 2j and 2j+1 share a size and the next pair takes
\* the next one, and each pushed time is the ticks divided (rounding down)
\* by that size.
C4_SizeRotatesEveryTwoSamples ==
    cmd = "pair" =>
        \A k \in Samples :
            LET s == history[k]
                len == Len(iterations_choices)
            IN  /\ s.iterations = ((s.i \div 2) % len) + 1
                /\ \A c \in 1..Len(s.calls) : s.calls[c].iterations = s.iterations
                /\ (s.i % 2 = 1) => s.iterations = history[k - 1].iterations
                /\ (s.i % 2 = 0 /\ k > 1 /\ len > 1) =>
                       s.iterations # history[k - 1].iterations
                /\ (Complete(k) /\ k <= Len(base_time)) =>
                       /\ base_time[k] * s.iterations <= TicksOf(k, "base")
                       /\ TicksOf(k, "base") < (base_time[k] + 1) * s.iterations
                       /\ candidate_time[k] * s.iterations <= TicksOf(k, "candidate")
                       /\ TicksOf(k, "candidate") <
                              (candidate_time[k] + 1) * s.iterations

\* C4 witness: with a table of ten sizes the rotation has come round (sample
\* 20 runs one iteration again) and a pushed time was rounded down.
C4_Witness ==
    /\ cmd = "pair" /\ Len(iterations_choices) = 10
    /\ Len(history) >= 21 /\ Complete(21)
    /\ history[21].iterations = 1 /\ history[20].iterations = 10
    /\ Len(base_time) >= 3
    /\ base_time[3] * history[3].iterations # TicksOf(3, "base")

\* C5: measure_function_pair has at least one complete sample whenever the
\* deadline check ends the loop.
C5_SampleBeforeDeadlineExit ==
    (cmd = "pair" /\ exit = "deadline") => Len(base_time) >= 1

\* C6: the main loop reads the clock only at sample indices that are
\* multiples of 10, so a loop ended by the deadline holds a multiple of 10
\* samples; at any other index a new sample is started even though the
\* deadline has passed.
C6_DeadlineOnlyAtMultiplesOfTen ==
    cmd = "pair" =>
        /\ \A idx \in deadline_checks : idx % 10 = 0
        /\ exit = "deadline" => (i % 10 = 0 /\ Len(base_time) % 10 = 0)
        /\ (pc = "loop" /\ i % 10 # 0 /\ i < opts.max_iterations) =>
               ENABLED SampleStart

\* C6 witness: the deadline ended the loop at sample index 10 after samples
\* had been started with the deadline already passed.
C6_Witness ==
    /\ cmd = "pair" /\ exit = "deadline" /\ i = 10
    /\ LateSamples # {}

\* C7 (as claimed): no sample is started once the deadline has passed.
C7_NoSampleStartedAfterDeadline ==
    cmd = "pair" => LateSamples = {}

\* C7 (amended): once the deadline has passed, samples are still started up
\* to the next sample index that is a multiple of 10: at most 9 samples are
\* started after the deadline, none of them at a multiple of 10.
C7_AtMostNineLateSamples ==
    cmd = "pair" =>
        /\ Cardinality(LateSamples) <= 9
        /\ \A k \in LateSamples : history[k].i % 10 # 0

\* C7 witness: nine samples were started after the deadline had passed.
C7_Witness ==
    cmd = "pair" /\ Cardinality(LateSamples) = 9

\* C18: when the deadline ends a paired loop before any sample was taken,
\* the run does not panic (the pair yields an empty result and is skipped).
C18_ZeroSamplesDoNotPanic ==
    (exit = "deadline" /\ Len(base_time) = 0 /\ Len(base_samples) = 0) =>
        pc # "panicked"

\* C19: estimate_iterations(time_ms) returns a value >= 1 for every target
\* and every time_ms >= 1: it neither returns 0 nor fails.
C19_EstimateAtLeastOne ==
    (cmd = "compare" /\ pc # "compare_estimate") =>
        (IsSome(estimated) /\ Unwrap(estimated) >= 1)

C24_GeneratorsStayInStep ==
    (cmd = "compare" /\ targets = "generator") =>
        /\ \A k \in Samples :
               Complete(k) =>
                   /\ history[k].calls[1].haystack = history[k].calls[2].haystack
                   /\ history[k].calls[1].iterations = history[k].calls[2].iterations
        /\ pc = "compare_loop" => generator = candidate_generator

\* C25 as stated: in pairwise_compare the baseline runs first at even sample
\* indices and the candidate first at odd ones.
C25_BaselineFirstAtEven ==
    cmd = "compare" =>
        \A k \in Samples :
            Len(history[k].calls) >= 1 =>
                history[k].calls[1].f =
                    (IF history[k].i % 2 = 0 THEN "base" ELSE "candidate")

\* C25: in pairwise_compare every sample is two runs, one of each target, the
\* order alternates from each sample to the next, and the candidate runs first
\* at even sample indices (sample 0 included), the baseline first at odd ones.
C25_CandidateFirstAtEven ==
    cmd = "compare" =>
        \A k \in Samples :
            LET s == history[k]
                first == IF s.i % 2 = 0 THEN "candidate" ELSE "base"
                second == IF s.i % 2 = 0 THEN "base" ELSE "candidate"
            IN  /\ s.i = k - 1
                /\ Len(s.calls) \in 1..2
                /\ (k < Len(history) \/ pc # "compare_second") => Complete(k)
                /\ s.calls[1].f = first
                /\ Len(s.calls) = 2 => s.calls[2].f = second
                /\ (k > 1) => s.calls[1].f # history[k - 1].calls[1].f

\* C25 witness: three complete samples of pairwise_compare, the first and the
\* third starting with the candidate, the second with the baseline.
C25_Witness ==
    /\ cmd = "compare" /\ Len(history) >= 3 /\ Complete(3)
    /\ history[1].calls[1].f = "candidate" /\ history[1].calls[2].f = "base"
    /\ history[2].calls[1].f = "base" /\ history[2].calls[2].f = "candidate"
    /\ history[3].calls[1].f = "candidate"

\* Whether sample k of measure_function_pair runs on a haystack (a needle) no
\* earlier sample ran on.
NewHaystack(k) == \A j \in 1..(k - 1) : history[j].haystack # history[k].haystack
NewNeedle(k) == \A j \in 1..(k - 1) : history[j].needle # history[k].needle

\* C26 as stated: a new haystack exactly at the indices that are multiples of
\* the haystack frequency, and a new needle with every new haystack.
C26_NeedleRenewedWithHaystack ==
    cmd = "pair" =>
        \A k \in Samples :
            /\ NewHaystack(k) <=> (history[k].i % opts.haystack_frequency = 0)
            /\ NewHaystack(k) => NewNeedle(k)

\* C26: in measure_function_pair sample i runs on a new haystack exactly when
\* i mod haystack_frequency = 0 and on a new needle exactly when
\* i mod needle_frequency = 0; the two are renewed independently, and a sample
\* that renews neither runs on the haystack and the needle of the sample
\* before it.
C26_IndependentFrequencies ==
    cmd = "pair" =>
        \A k \in Samples :
            /\ NewHaystack(k) <=> (history[k].i % opts.haystack_frequency = 0)
            /\ NewNeedle(k) <=> (history[k].i % opts.needle_frequency = 0)
            /\ (k > 1 /\ ~NewHaystack(k)) =>
                   history[k].haystack = history[k - 1].haystack
            /\ (k > 1 /\ ~NewNeedle(k)) =>
                   history[k].needle = history[k - 1].needle

\* C26 witness: with haystack_frequency 1 and needle_frequency 2, sample 1
\* has run both functions on a new haystack and the needle of sample 0.
C26_Witness ==
    /\ cmd = "pair" /\ Len(history) >= 2 /\ Complete(2)
    /\ opts.haystack_frequency = 1 /\ opts.needle_frequency = 2
    /\ history[2].haystack # history[1].haystack
    /\ history[2].needle = history[1].needle

\* C29: measure_function_pair never holds more than max_iterations paired
\* samples; its pilot loop ends, and only once the pilot's deadline has
\* passed; and its main loop ends, either because the index reached
\* max_iterations or because the deadline was found passed at an index that
\* is a multiple of 10.
C29_TerminatesWithinCap ==
    /\ [](cmd = "pair" =>
            /\ Len(base_time) <= opts.max_iterations
            /\ Len(candidate_time) <= opts.max_iterations
            /\ Len(history) <= opts.max_iterations
            /\ (exit = "cap" => i = opts.max_iterations)
            /\ (exit = "deadline" =>
                    /\ i < opts.max_iterations
                    /\ i % CheckEvery = 0
                    /\ now >= deadline))
    /\ [][(pc = "pilot" /\ pc' # "pilot") => now >= deadline]_vars
    /\ (pc = "estimate") ~> (pc = "loop")
    /\ (pc = "estimate") ~> (exit \in {"cap", "deadline"})

\* C29 witness: the main loop has ended on the deadline with ten paired
\* samples, fewer than max_iterations allows.
C29_Witness ==
    /\ cmd = "pair" /\ exit = "deadline"
    /\ Len(base_time) = CheckEvery /\ Len(candidate_time) = CheckEvery
    /\ opts.max_iterations > CheckEvery

(***************************************************************************)
(* Claims about the Benchmark registry (checked under SpecBenchmark).      *)
(***************************************************************************)
\* The calls reporter r received, in order.
EventsOf(r) == SelectSeq(events, LAMBDA e : e.reporter = r)

\* The keys of the registered pairs run_by_name is to run, in key order.
MatchingKeys ==
    SelectSeq(list_functions,
              LAMBDA key : contains(key, name_filter)
                               \/ contains(generator_name, name_filter))

\* The key of a pair add_pair was called with.
KeyOf(pair) == pair.baseline \o <<45>> \o pair.candidate

\* C21: in run_by_name every reporter receives on_start(generator name) at
\* most once and before any on_complete, never when no registered pair
\* matches the filter, and on_complete once per matching pair in ascending
\* key order: what it has received so far is a prefix of that, and all of it
\* once run_by_name has returned.
C21_ReporterProtocol ==
    (cmd = "benchmark" /\ bpc \in {"run", "ran", "panicked"}) =>
        \A r \in 1..reporters :
            LET mine == EventsOf(r)
                starts == SelectSeq(mine, LAMBDA e : e.kind = "on_start")
                completes == SelectSeq(mine, LAMBDA e : e.kind = "on_complete")
            IN  /\ Len(starts) <= 1
                /\ \A k \in 1..Len(starts) : starts[k].arg = generator_name
                /\ Len(mine) > 0 => mine[1].kind = "on_start"
                /\ MatchingKeys = <<>> => mine = <<>>
                /\ Len(completes) <= Len(MatchingKeys)
                /\ \A k \in 1..Len(completes) : completes[k].arg = MatchingKeys[k]
                /\ bpc = "ran" =>
                       /\ Len(completes) = Len(MatchingKeys)
                       /\ Len(starts) = (IF MatchingKeys = <<>> THEN 0 ELSE 1)

\* C21 witness: run_by_name has returned with two pairs registered of which
\* one matches a filter the generator's name does not contain, and both
\* reporters have received on_start and then on_complete.
C21_Witness ==
    /\ cmd = "benchmark" /\ bpc = "ran"
    /\ reporters = 2 /\ Len(funcs) = 2 /\ Len(MatchingKeys) = 1
    /\ ~contains(generator_name, name_filter)
    /\ Len(events) = 4
    /\ events[1].kind = "on_start" /\ events[2].kind = "on_start"
    /\ events[3].kind = "on_complete" /\ events[4].kind = "on_complete"

\* C22: run_calibration makes, for every registered pair, one calibrate call
\* on (baseline, baseline) and one on (candidate, candidate), each of exactly
\* TRIES measurements and printing TRIES minus the significant ones, and
\* later one on (baseline, candidate) printing the significant ones; every
\* H0 call of every pair comes before the first H1 call, and every printed
\* number lies in 0..TRIES.
C22_CalibrationProtocol ==
    (cmd = "benchmark"
         /\ bpc \in {"h0", "h1", "calibrated", "calibration panicked"}) =>
        /\ \A k \in 1..Len(calibration) :
               LET c == calibration[k]
               IN  /\ c.measurements = TRIES
                   /\ c.printed \in 0..TRIES
                   /\ c.hypothesis = "H0" =>
                          c.printed = TRIES - c.significant
                   /\ c.hypothesis = "H1" => c.printed = c.significant
        /\ \A j, k \in 1..Len(calibration) :
               (j < k /\ calibration[j].hypothesis = "H1") =>
                   calibration[k].hypothesis = "H1"
        /\ bpc = "h0" =>
               \A k \in 1..Len(calibration) : calibration[k].hypothesis = "H0"
        /\ bpc = "calibrated" =>
               /\ Len(calibration) = 3 * Len(funcs)
               /\ \A k \in 1..Len(funcs) :
                      LET b == funcs[k].value.baseline
                          c == funcs[k].value.candidate
                          h0b == calibration[2 * k - 1]
                          h0c == calibration[2 * k]
                          h1 == calibration[2 * Len(funcs) + k]
                      IN  /\ h0b.hypothesis = "H0"
                          /\ h0b.baseline = b /\ h0b.candidate = b
                          /\ h0c.hypothesis = "H0"
                          /\ h0c.baseline = c /\ h0c.candidate = c
                          /\ h1.hypothesis = "H1"
                          /\ h1.baseline = b /\ h1.candidate = c

\* C22 witness: run_calibration has returned for two registered pairs, with
\* an H0 line of 10 (nothing significant) and an H1 line of 10 (everything
\* significant) among the six printed.
C22_Witness ==
    /\ cmd = "benchmark" /\ bpc = "calibrated"
    /\ Len(funcs) = 2 /\ Len(calibration) = 6
    /\ \E j, k \in 1..6 :
           /\ calibration[j].hypothesis = "H0" /\ calibration[j].printed = TRIES
           /\ calibration[k].hypothesis = "H1" /\ calibration[k].printed = TRIES

\* C30: the registry holds one pair per distinct key "<baseline>-<candidate>"
\* among the pairs added: as many entries as distinct keys, under each key
\* the pair added last with that key (whatever the names it is made of), the
\* keys in strictly ascending order, and list_functions yields those keys in
\* that order.
C30_OnePairPerKey ==
    cmd = "benchmark" =>
        /\ {funcs[k].key : k \in 1..Len(funcs)} =
               {KeyOf(added[j]) : j \in 1..Len(added)}
        /\ Len(funcs) = Cardinality({KeyOf(added[j]) : j \in 1..Len(added)})
        /\ \A k \in 1..Len(funcs) :
               LET last == CHOOSE j \in 1..Len(added) :
                               /\ KeyOf(added[j]) = funcs[k].key
                               /\ \A l \in (j + 1)..Len(added) :
                                      KeyOf(added[l]) # funcs[k].key
               IN  funcs[k].value = added[last]
        /\ \A k \in 1..(Len(funcs) - 1) : StrLess(funcs[k].key, funcs[k + 1].key)
        /\ Len(list_functions) = Len(funcs)
        /\ \A k \in 1..Len(funcs) : list_functions[k] = funcs[k].key

\* C30 witness: two pairs of different names whose keys are the same string
\* were added, and the registry holds the second one alone.
C30_Witness ==
    /\ cmd = "benchmark" /\ Len(added) = 2 /\ Len(funcs) = 1
    /\ added[1].baseline # added[2].baseline
    /\ added[1].candidate # added[2].candidate
    /\ funcs[1].value = added[2]
    /\ list_functions = <<KeyOf(added[1])>>

(***************************************************************************)
(* Claims about one measure call (checked under SpecMeasure).              *)
(***************************************************************************)
\* The positions in the trace at which `what` was done.
TraceAt(what) == {k \in 1..Len(trace) : trace[k] = what}

\* C23: in every measure call the setup (where there is one) runs once and
\* the inputs (where a generator is bound) are generated before the timer
\* starts, the function is called only between the start and the stop of the
\* timer and exactly `iterations` times by the time it stops, the results
\* buffer is released after the stop, and nothing but calls of the function
\* lies between the start and the stop.
C23_MeasureOrder ==
    cmd = "measure" =>
        LET starts == TraceAt("start")
            stops == TraceAt("stop")
            calls == TraceAt("call")
            setups == TraceAt("setup")
            drops == TraceAt("drop")
            draws == TraceAt("next_haystack") \cup TraceAt("next_needles")
        IN  /\ Cardinality(starts) <= 1 /\ Cardinality(stops) <= 1
            /\ Cardinality(drops) <= 1
            /\ Cardinality(setups) <= (IF target.func = "SetupFunc" THEN 1 ELSE 0)
            /\ (target.func = "SetupFunc" /\ starts # {}) => Cardinality(setups) = 1
            /\ (target.generator /\ starts # {}) =>
                   /\ Cardinality(TraceAt("next_haystack")) = 1
                   /\ Cardinality(TraceAt("next_needles")) = 1
            /\ ~target.generator => draws = {}
            /\ \A s \in starts : \A k \in setups \cup draws : k < s
            /\ \A c \in calls : \E s \in starts : s < c
            /\ \A p \in stops :
                   /\ \E s \in starts : s < p
                   /\ \A c \in calls : c < p
                   /\ Cardinality(calls) = requested
                   /\ \A s \in starts : \A k \in (s + 1)..(p - 1) : trace[k] = "call"
            /\ Cardinality(calls) <= requested
            /\ \A d \in drops : \E p \in stops : p < d
            /\ (results = "dropped") <=> (drops # {})
            /\ mpc = "return" =>
                   /\ Cardinality(stops) = 1 /\ Cardinality(drops) = 1
                   /\ trace[Len(trace)] = "drop"

\* C23 witness: a SetupFunc behind GenAndFunc has returned from a measure of
\* two or more iterations.
C23_Witness ==
    /\ cmd = "measure" /\ mpc = "return"
    /\ target = [func |-> "SetupFunc", generator |-> TRUE]
    /\ requested >= 2
    /\ Cardinality(TraceAt("call")) = requested
    /\ results = "dropped"

(***************************************************************************)
(* Claims about max_variance_thresholds (checked under SpecThresholds).    *)
(***************************************************************************)
\* The magnitudes of the outliers_cnt largest-magnitude inputs.
TopMagnitudes ==
    LET sorted == sort_by_key_abs(mv_input)
    IN  {Abs(sorted[k]) :
            k \in (Len(mv_input) - mv_outliers_cnt + 1)..Len(mv_input)}

\* C27: a split max_variance_thresholds accepts where the interval of
\* binomial_interval_approximation is available has its count of negative
\* candidate outliers inside that interval (the ends included); where the
\* interval is not available, n * p < 10, and the split is accepted as it is.
C27_AcceptedOnlyInsideInterval ==
    (cmd = "thresholds" /\ mv_pc = "returned" /\ IsSome(mv_decision)) =>
        LET d == Unwrap(mv_decision)
        IN  /\ IsSome(d.interval) =>
                   /\ Unwrap(d.interval).min <= d.candidate_outliers
                   /\ d.candidate_outliers <= Unwrap(d.interval).max
            /\ d.interval = None => d.n < 2 * MinExpected

\* C28: thresholds returned by max_variance_thresholds are (-v, v) with
\* v >= 0 the magnitude of one of the outliers_cnt largest-magnitude inputs,
\* every input of smaller magnitude than all of those lies strictly between
\* them, and the input of tests::check_filter_outliers with outliers_cnt = 3
\* gets thresholds with low < 1 and 10 < high <= 101.
C28_SymmetricThresholds ==
    (cmd = "thresholds" /\ mv_pc = "returned") =>
        /\ IsSome(mv_result) =>
               LET th == Unwrap(mv_result)
               IN  /\ th.min = -th.max /\ th.max >= 0
                   /\ th.max \in TopMagnitudes
                   /\ \A k \in 1..Len(mv_input) :
                          (\A top \in TopMagnitudes : Abs(mv_input[k]) < top) =>
                              (th.min < mv_input[k] /\ mv_input[k] < th.max)
        /\ (mv_input = TestInput /\ mv_outliers_cnt = 3) =>
               /\ IsSome(mv_result)
               /\ Unwrap(mv_result).min < 1
               /\ 10 < Unwrap(mv_result).max /\ Unwrap(mv_result).max <= 101

\* C28 witness: the input of tests::check_filter_outliers with
\* outliers_cnt = 3 has got the thresholds (-101, 101).
C28_Witness ==
    /\ cmd = "thresholds" /\ mv_pc = "returned"
    /\ mv_input = TestInput /\ mv_outliers_cnt = 3
    /\ mv_result = Some([min |-> -101, max |-> 101])

(***************************************************************************)
(* Reference statistics, computed in two passes as the tests'              *)
(* naive_variance does.                                                    *)
(***************************************************************************)
RECURSIVE SeqSum(_)
SeqSum(q) == IF q = <<>> THEN 0 ELSE Head(q) + SeqSum(Tail(q))

SeqMin(q) == CHOOSE m \in {q[k] : k \in 1..Len(q)} : \A k \in 1..Len(q) : m <= q[k]
SeqMax(q) == CHOOSE m \in {q[k] : k \in 1..Len(q)} : \A k \in 1..Len(q) : m >= q[k]

RECURSIVE sum_of_squares(_, _)
sum_of_squares(q, mean) ==
    IF q = <<>> THEN FZero
    ELSE FAdd(FMul(FSub(to_f64(Head(q)), mean), FSub(to_f64(Head(q)), mean)),
              sum_of_squares(Tail(q), mean))

naive_variance(q) ==
    LET n == Len(q)
        mean == FDiv(to_f64(SeqSum(q)), to_f64(n))
    IN  FDiv(sum_of_squares(q, mean), to_f64(n - 1))

\* The summary of a non-empty sequence, stated from its definition.
TwoPassSummary(q) ==
    [n |-> Len(q), min |-> SeqMin(q), max |-> SeqMax(q),
     mean |-> FDiv(to_f64(SeqSum(q)), to_f64(Len(q))),
     variance |-> IF Len(q) >= 2 THEN naive_variance(q) ELSE FZero]

(***************************************************************************)
(* Claims about iqr_variance_thresholds and calculate_run_result (checked  *)
(* under SpecResult).  The statistics of the kept differences are restated *)
(* in two passes.                                                          *)
(***************************************************************************)
Called == cmd = "result" /\ rpc # "call"
Returned == cmd = "result" /\ rpc = "returned"
Below(q, v) == Cardinality({k \in 1..Len(q) : q[k] < v})
Above(q, v) == Cardinality({k \in 1..Len(q) : q[k] > v})
KeptStats == TwoPassSummary(measurements)

\* The fences q1 - 5 IQR and q3 + 5 IQR of a vector with a positive IQR.
LowFence(s) == At(s, Len(s) \div 4) - FACTOR * (At(s, (Len(s) * 3) \div 4) - At(s, Len(s) \div 4))
HighFence(s) == At(s, (Len(s) * 3) \div 4) + FACTOR * (At(s, (Len(s) * 3) \div 4) - At(s, Len(s) \div 4))

\* C11: whenever iqr_variance_thresholds returns (low, high), as many
\* differences lie strictly below low as lie strictly above high.
C11_TrimIsSymmetric ==
    (Called /\ filter_outliers /\ IsSome(thresholds)) =>
        Below(diff, Unwrap(thresholds).min) = Above(diff, Unwrap(thresholds).max)

\* C12: iqr_variance_thresholds returns thresholds only when a value lies
\* below the low fence and a value lies at or beyond the high fence, and then
\* trims k values per side, k no more than the number of values beyond the
\* high fence, returning (d[k], d[n-k]).
C12_ThresholdsNeedOutliersOnBothSides ==
    (Called /\ filter_outliers /\ IsSome(thresholds)) =>
        LET s == sort(diff)
            n == Len(s)
            below == Below(s, LowFence(s) + 1)
            beyond == Above(s, HighFence(s) - 1)
        IN  /\ below >= 1 /\ beyond >= 1
            /\ \E k \in 1..Min(below, beyond) :
                   /\ Unwrap(thresholds).min = At(s, k)
                   /\ Unwrap(thresholds).max = At(s, n - k)

C15_SignificanceRule ==
    Returned =>
        LET n == Len(measurements)
            ratio == candidate_mean.num = 0
                     \/ FLt(FAbs(candidate_mean), FMul(to_f64(200), FAbs(KeptStats.mean)))
            z == ~FLt(FMul(to_f64(25 * n), FMul(KeptStats.mean, KeptStats.mean)),
                      FMul(to_f64(169), KeptStats.variance))
        IN  /\ Unwrap(run_result).significant => (ratio /\ KeptStats.mean.num # 0)
            /\ (n >= 2 /\ KeptStats.variance.num # 0) =>
                   (Unwrap(run_result).significant <=> (z /\ ratio))

\* C15 witness: outliers were filtered, the kept differences vary, and the
\* result is significant.
C15_Witness ==
    /\ Returned /\ Unwrap(run_result).significant
    /\ Unwrap(run_result).outliers > 0
    /\ Unwrap(run_result).diff.variance.num # 0

\* C16 (as claimed): with a variance of 0 the result is never significant.
C16_ZeroVarianceNeverSignificant ==
    (Returned /\ Unwrap(run_result).diff.variance.num = 0) =>
        ~Unwrap(run_result).significant

\* C16 (amended): with a variance of 0, significant is false when the mean
\* difference is 0 (z is 0/0); for a constant non-zero difference z is
\* infinite and significant is true exactly when
\* |diff.mean / candidate.mean| > 0.005.
C16_ZeroVarianceSignificantIffNonZeroMean ==
    (Returned /\ \A k \in 1..Len(measurements) : measurements[k] = measurements[1]) =>
        /\ Unwrap(run_result).diff.variance.num = 0
        /\ Unwrap(run_result).significant <=>
               /\ measurements[1] # 0
               /\ \/ candidate_mean.num = 0
                  \/ FLt(FAbs(candidate_mean), to_f64(200 * Abs(measurements[1])))

\* C16 witness: three or more equal non-zero differences were kept and the
\* result is significant.
C16_Witness ==
    /\ Returned /\ Len(measurements) >= 3
    /\ \A k \in 1..Len(measurements) : measurements[k] = measurements[1]
    /\ Unwrap(run_result).significant

\* C17: calculate_run_result returns a RunResult for every non-empty vector
\* of differences: the filter never keeps too few values for a summary.
C17_NeverPanicsOnNonEmptyDiff ==
    (Called /\ Len(diff) >= 1) => (rpc = "returned" /\ measurements # <<>>)

(***************************************************************************)
(* Claims about Summary (checked under SpecSummary).                       *)
(***************************************************************************)

\* C8: Summary::from(xs) is None for the empty sequence and, for every
\* non-empty xs (a single element included), a summary with n = Len(xs).
\* Stated for both crates; src/src/lib.rs returns None for one element.
C8_FromCountsEveryValue ==
    spc = "done" =>
        /\ (xs = <<>> => from_result = None)
        /\ (xs # <<>> => IsSome(from_result) /\ Unwrap(from_result).n = Len(xs))

\* C9: Summary::running yields one snapshot per input value, and the k-th
\* snapshot is the summary of the first k values.  Stated for both crates;
\* src/src/lib.rs yields no snapshot for the head of the input.
C9_RunningIsPrefixConsistent ==
    spc = "done" =>
        /\ Len(emitted) = Len(xs)
        /\ \A k \in 1..Len(emitted) : emitted[k] = TwoPassSummary(SubSeq(xs, 1, k))

\* C10: for every input of length n >= 2 the single-pass Welford recurrence
\* (of either crate) yields mean = sum/n, the two-pass sample variance, and
\* the smallest and the largest element as min and max.
C10_WelfordMatchesTwoPass ==
    (spc = "done" /\ Len(xs) >= 2) =>
        /\ IsSome(from_result)
        /\ Unwrap(from_result) = TwoPassSummary(xs)
        /\ Unwrap(from_result).mean = FDiv(to_f64(SeqSum(xs)), to_f64(Len(xs)))
        /\ Unwrap(from_result).variance = naive_variance(xs)

\* C10 witness: a finished summary of three or more values whose mean is
\* not an integer and whose variance is not zero.
C10_Witness ==
    /\ spc = "done" /\ Len(xs) >= 3 /\ IsSome(from_result)
    /\ Unwrap(from_result).mean.den # 1
    /\ Unwrap(from_result).variance.num # 0
    /\ Unwrap(from_result).min < Unwrap(from_result).max

====
